---- MODULE Spec2Model ----
(***************************************************************************)
(* Model of the auto-apply part of the OCI reserved-IP Telegram bot        *)
(* (package bot): the /autoip wizard, the existing-IP reconciliation, the  *)
(* background auto-apply loop and /stopauto, over the shared Bot fields    *)
(* currentClient, autoWizard, autoApply and purityCache.                   *)
(*                                                                         *)
(* The update loop of Run handles one update at a time (the foreground     *)
(* flow, fg); every runAutoApplyTask goroutine is a separate flow whose    *)
(* steps interleave with it.  A step of a flow runs from the return of one  *)
(* blocking call (or the arrival of the update) to the next blocking call  *)
(* or the end of the flow; the lock sections in between are part of it.    *)
(***************************************************************************)
EXTENDS Integers, Sequences, FiniteSets, TLC

\* ------------------------------------------------------------------ bounds
MaxConfigs == 2    \* AutoApplyConfig objects that are reachable or running at once
MaxRes == 2        \* reserved IPs the provider hands out in one behaviour
MaxAttempts == 2   \* loop iterations of one auto-apply goroutine

\* ----------------------------------------------------------- input domains
Accounts == {"a1", "a2"}                    \* keys of b.clients
WizardAccounts == {"a1"}                    \* account buttons pressed in the model
PurityButtons == {<<"2", "0">>}             \* "autoip:purity:20"
NativeButtons == {"native"}                 \* "autoip:native:原生IP"
ModeButtons == {"all"}                      \* "autoip:mode:all"
StaleLevels == {2, 6}                       \* keyboards whose buttons are pressed
                                            \* when the session is at another step
Tracked == StaleLevels \cup {6}             \* keyboards the model keeps track of
IntervalTexts == { <<"1", "0">>, <<"5">> }   \* texts sent at the interval step

\* classifications ippure.Check can return: score text and origin label
Infos ==
  { [PurityScore |-> <<"1", "0", "%">>, IsNative |-> "native"],
    [PurityScore |-> <<"3", "0", "%">>, IsNative |-> "broadcast"] }

Slots == 1..MaxConfigs
Nil == <<>>

\* ------------------------------------------------------- strconv / strings
Digits == {"0", "1", "2", "3", "4", "5", "6", "7", "8", "9"}

DigitVal(c) ==
  CASE c = "0" -> 0 [] c = "1" -> 1 [] c = "2" -> 2 [] c = "3" -> 3
    [] c = "4" -> 4 [] c = "5" -> 5 [] c = "6" -> 6 [] c = "7" -> 7
    [] c = "8" -> 8 [] c = "9" -> 9 [] OTHER -> 0

RECURSIVE DigitsVal(_)
DigitsVal(s) ==
  IF s = <<>> THEN 0
  ELSE DigitsVal(SubSeq(s, 1, Len(s) - 1)) * 10 + DigitVal(s[Len(s)])

\* strconv.Atoi: optional sign, then one or more decimal digits
AtoiBody(s) == IF s # <<>> /\ s[1] \in {"+", "-"} THEN Tail(s) ELSE s

AtoiOk(s) ==
  /\ AtoiBody(s) # <<>>
  /\ \A i \in 1..Len(AtoiBody(s)) : AtoiBody(s)[i] \in Digits

Atoi(s) ==
  IF ~AtoiOk(s) THEN [err |-> TRUE, val |-> 0]
  ELSE [err |-> FALSE,
        val |-> IF s[1] = "-" THEN 0 - DigitsVal(AtoiBody(s))
                ELSE DigitsVal(AtoiBody(s))]

RECURSIVE TrimLeft(_)
TrimLeft(s) == IF s # <<>> /\ s[1] = " " THEN TrimLeft(Tail(s)) ELSE s

RECURSIVE TrimRight(_)
TrimRight(s) ==
  IF s # <<>> /\ s[Len(s)] = " " THEN TrimRight(SubSeq(s, 1, Len(s) - 1)) ELSE s

TrimSpace(s) == TrimRight(TrimLeft(s))

\* strings.Split(s, "-"): the pieces between the separators
RECURSIVE SplitDash(_)
SplitDash(s) ==
  IF \A i \in 1..Len(s) : s[i] # "-" THEN <<s>>
  ELSE LET k == CHOOSE i \in 1..Len(s) :
                   s[i] = "-" /\ \A j \in 1..(i - 1) : s[j] # "-"
       IN <<SubSeq(s, 1, k - 1)>> \o SplitDash(SubSeq(s, k + 1, Len(s)))

TrimSuffixPct(s) ==
  IF s # <<>> /\ s[Len(s)] = "%" THEN SubSeq(s, 1, Len(s) - 1) ELSE s

\* -------------------------------------------------------------- the state
VARIABLES
  currentClient,  \* b.currentClient, as its account name
  autoWizard,     \* b.autoWizard: Nil or <<wizard>>
  autoApply,      \* b.autoApply: 0 (nil) or the slot of an AutoApplyConfig
  cfgs,           \* the AutoApplyConfig objects, by slot
  task,           \* the runAutoApplyTask goroutine of each config, by slot
  purityCache,    \* b.purityCache: address -> Nil or <<entry>>
  pool,           \* reserved IPs of each account at the provider, in list order
  nextRes,        \* the next reserved IP the provider hands out
  fg,             \* the update loop: idle, or inside a handler at a blocking call
  msg,            \* the message the last step sent to the chat
  crashed,        \* the process died of a nil dereference
  chat,           \* the keyboards (of Tracked) sent to the chat so far
  mu,             \* b.mu: "free", or the flow that holds it
  flows           \* each flow's code path and the operation it is inside

lockVars == <<mu, flows>>

botVars == <<currentClient, autoWizard, autoApply, cfgs, task, purityCache, pool,
             nextRes, fg, msg, crashed, chat>>

vars == <<currentClient, autoWizard, autoApply, cfgs, task, purityCache, pool,
          nextRes, fg, msg, crashed, chat, mu, flows>>

\* ------------------------------------------------- the code paths and b.mu
\* One operation of a code path, with the source line it stands on.
Lock(n)     == [op |-> "lock",   what |-> "mu", at |-> n]
Unlock(n)   == [op |-> "unlock", what |-> "mu", at |-> n]
Read(x, n)  == [op |-> "read",   what |-> x, at |-> n]
Write(x, n) == [op |-> "write",  what |-> x, at |-> n]
Call(x, n)  == [op |-> "call",   what |-> x, at |-> n]
Timer(n)    == [op |-> "sleep",  what |-> "timer", at |-> n]
Send(n)     == [op |-> "send",   what |-> "chat", at |-> n]
Go(n)       == [op |-> "go",     what |-> "runAutoApplyTask", at |-> n]

\* every path of P followed by every path of Q
Then(P, Q) == {p \o q : p \in P, q \in Q}

\* showIPListWithHighlight after its locked prologue: the listing, then the
\* error reply, the empty list, or one cache lookup per IP and the list
ListAndShow ==
  Then({<<Call("ListReservedIPs", 413)>>},
       { <<Send(415)>>,
         <<Send(429)>>,
         <<Lock(439), Read("purityCache", 440), Unlock(441), Send(476)>> })

\* showIPList: useClient is nil, the current account is read under the lock
ShowIPListPaths ==
  Then({<<Lock(403), Read("currentClient", 406), Unlock(408)>>}, ListAndShow)

\* showIPListWithHighlight with the Controller's own client
ShowHighlightPaths == Then({<<Lock(403), Unlock(408)>>}, ListAndShow)

HandleHelpPaths == {<<Read("currentClient", 354), Send(356)>>}

ShowAccountsPaths == {<<Read("currentClient", 365), Send(375)>>}

SwitchAccountPaths ==
  {<<Send(382)>>}
    \cup Then({<<Lock(386), Write("currentClient", 387), Unlock(388)>>},
              ShowIPListPaths)

CreateIPPaths ==
  Then({<<Lock(481), Read("currentClient", 482), Unlock(483), Send(485),
          Call("CreateReservedIP", 491)>>},
       { <<Send(493)>>,
         <<Call("WaitForIPReady", 497), Send(499)>>,
         <<Call("WaitForIPReady", 497), Send(505), Call("ippure.Check", 510),
           Send(523)>>,
         <<Call("WaitForIPReady", 497), Send(505), Call("ippure.Check", 510),
           Lock(528), Write("purityCache", 529), Unlock(534), Send(558)>>,
         <<Call("WaitForIPReady", 497), Send(576)>> })

DeleteIPPaths ==
  Then({<<Lock(581), Read("currentClient", 582), Unlock(583),
          Call("ListReservedIPs", 588)>>},
       { <<Send(590)>>, <<Send(603)>>,
         <<Call("DeleteReservedIP", 607), Send(609)>> }
         \cup Then({<<Call("DeleteReservedIP", 607), Send(613)>>},
                   ShowIPListPaths))

CheckIPPaths ==
  { <<Send(623)>>,
    <<Send(627), Call("ippure.Check", 632), Send(634)>>,
    <<Send(627), Call("ippure.Check", 632), Lock(639),
      Write("purityCache", 640), Unlock(645), Send(659)>> }

CheckIPFromCallbackPaths ==
  { <<Send(666)>>,
    <<Send(670), Call("ippure.Check", 675), Send(677)>> }
    \cup Then({<<Send(670), Call("ippure.Check", 675), Lock(682),
                 Write("purityCache", 683), Unlock(688), Send(703)>>},
              ShowIPListPaths)

StartAutoIPWizardPaths ==
  { <<Lock(726), Read("autoApply", 727), Unlock(728), Send(729)>>,
    <<Lock(726), Read("autoApply", 727), Write("autoWizard", 734),
      Unlock(738), Send(753)>> }

\* doStartAutoApply: the handle is armed and the wizard cleared under the
\* lock; the reply reads config.AccountName after the unlock
DoStartAutoApplyPaths ==
  {<<Lock(1076), Write("autoApply", 1079), Write("autoWizard", 1082),
     Unlock(1083), Read("autoApply", 1085), Send(1085), Go(1088)>>}

\* startAutoApplyTask with the listing made before the lock is released
StartAutoApplyTaskListsLocked ==
  { <<Lock(1016), Read("autoApply", 1017), Unlock(1019), Send(1020)>>,
    <<Lock(1016), Read("autoApply", 1017), Read("autoApply", 1025),
      Unlock(1027), Read("autoApply", 1028), Send(1028)>>,
    <<Lock(1016), Read("autoApply", 1017), Read("autoApply", 1025),
      Call("ListReservedIPs", 1037), Unlock(1031),
      Read("autoApply", 1055), Send(1066)>> }
    \cup Then({<<Lock(1016), Read("autoApply", 1017), Read("autoApply", 1025),
                 Call("ListReservedIPs", 1037), Unlock(1031)>>},
              Then({<<Send(1039)>>, <<>>}, DoStartAutoApplyPaths))

StartAutoApplyTaskPaths ==
  { <<Lock(1016), Read("autoApply", 1017), Unlock(1019), Send(1020)>>,
    <<Lock(1016), Read("autoApply", 1017), Read("autoApply", 1025),
      Unlock(1027), Read("autoApply", 1028), Send(1028)>>,
    <<Lock(1016), Read("autoApply", 1017), Read("autoApply", 1025),
      Unlock(1031), Call("ListReservedIPs", 1037),
      Read("autoApply", 1055), Send(1066)>> }
    \cup Then({<<Lock(1016), Read("autoApply", 1017), Read("autoApply", 1025),
                 Unlock(1031), Call("ListReservedIPs", 1037)>>},
              Then({<<Send(1039)>>, <<>>}, DoStartAutoApplyPaths))

\* the deletions of deleteAllIPsAndStart for no, one and two listed IPs, a
\* delete failing or not, with the pause between two of them
PurgeLoops ==
  LET One == { <<Send(1122), Call("DeleteReservedIP", 1125)>>,
               <<Send(1122), Call("DeleteReservedIP", 1125), Send(1129)>> }
  IN  {<<>>} \cup One \cup Then(Then(One, {<<Send(1138), Timer(1139)>>}), One)

DeleteAllIPsAndStartPaths ==
  { <<Lock(1093), Read("autoApply", 1094), Unlock(1096), Send(1097)>>,
    <<Lock(1093), Read("autoApply", 1094), Read("autoApply", 1101),
      Unlock(1103), Read("autoApply", 1104), Send(1104)>>,
    <<Lock(1093), Read("autoApply", 1094), Read("autoApply", 1101),
      Read("autoApply", 1107), Unlock(1109), Call("ListReservedIPs", 1113),
      Send(1117)>> }
    \cup Then({<<Lock(1093), Read("autoApply", 1094), Read("autoApply", 1101),
                 Read("autoApply", 1107), Unlock(1109),
                 Call("ListReservedIPs", 1113)>>},
              Then(PurgeLoops, Then({<<Send(1143)>>}, DoStartAutoApplyPaths)))

\* showConfirmation: the handle is built under the lock, the summary reads
\* the wizard's fields after the unlock
ShowConfirmationPaths ==
  { <<Lock(950), Read("autoWizard", 951), Unlock(952), Send(955)>>,
    <<Lock(950), Read("autoWizard", 951), Unlock(952),
      Lock(960), Read("autoWizard", 962), Write("autoApply", 961), Unlock(970),
      Read("autoWizard", 973), Send(1011)>> }

HandleIntervalInputPaths ==
  { <<Send(907)>>, <<Send(933)>> }
    \cup Then({<<Lock(937), Read("autoWizard", 938), Write("autoWizard", 940),
                 Unlock(942)>>,
               <<Lock(937), Read("autoWizard", 938), Unlock(942)>>},
              ShowConfirmationPaths)

\* handleMessage on free text: the reference is read under the lock, the
\* step after the unlock
FreeTextPaths ==
  { <<Lock(289), Read("autoWizard", 290), Unlock(291), Send(299)>>,
    <<Lock(289), Read("autoWizard", 290), Unlock(291), Read("autoWizard", 293),
      Send(299)>> }
    \cup Then({<<Lock(289), Read("autoWizard", 290), Unlock(291),
                 Read("autoWizard", 293)>>},
              HandleIntervalInputPaths)

HandleAutoIPCallbackPaths ==
  Then({<<Lock(758), Read("autoWizard", 759), Unlock(760)>>},
       { <<Send(763)>>,
         <<Lock(776), Write("autoWizard", 777), Unlock(778), Send(779)>>,
         <<Lock(783), Write("autoWizard", 784), Unlock(786), Send(849)>>,
         <<Lock(792), Write("autoWizard", 793), Unlock(795), Send(866)>>,
         <<Lock(800), Write("autoWizard", 801), Unlock(803), Send(880)>>,
         <<Lock(808), Write("autoWizard", 809), Unlock(811), Send(894)>> }
         \cup StartAutoApplyTaskPaths
         \cup DeleteAllIPsAndStartPaths
         \cup Then({<<Lock(823), Read("autoApply", 824), Read("autoApply", 825),
                      Unlock(826)>>},
                   DoStartAutoApplyPaths))

StopAutoApplyPaths ==
  { <<Lock(1151), Read("autoApply", 1152), Unlock(1154), Send(1155)>>,
    <<Lock(1151), Read("autoApply", 1152), Write("autoApply", 1162),
      Unlock(1164), Send(1166)>> }

\* what the update loop of Run can be asked to do
HandlerPaths ==
  HandleHelpPaths \cup ShowAccountsPaths \cup SwitchAccountPaths
    \cup ShowIPListPaths \cup CreateIPPaths \cup DeleteIPPaths
    \cup CheckIPPaths \cup CheckIPFromCallbackPaths
    \cup StartAutoIPWizardPaths \cup FreeTextPaths
    \cup HandleAutoIPCallbackPaths \cup StopAutoApplyPaths

\* waitInterval: the bounds are read from the handle, then the timer
WaitIntervalPath == <<Read("autoApply", 1294), Timer(1304)>>

\* one turn of runAutoApplyTask's loop that ends in waitInterval
RetryPaths ==
  { <<Call("CreateReservedIP", 1188)>> \o WaitIntervalPath,
    <<Call("CreateReservedIP", 1188), Call("WaitForIPReady", 1199)>>
      \o WaitIntervalPath,
    <<Call("CreateReservedIP", 1188), Call("WaitForIPReady", 1199),
      Call("ippure.Check", 1212)>> \o WaitIntervalPath,
    <<Call("CreateReservedIP", 1188), Call("WaitForIPReady", 1199),
      Call("ippure.Check", 1212), Read("autoApply", 1282),
      Call("DeleteReservedIP", 1261)>> \o WaitIntervalPath }

\* the turn that finds a match and returns
MatchPaths ==
  Then({<<Call("CreateReservedIP", 1188), Call("WaitForIPReady", 1199),
          Call("ippure.Check", 1212), Read("autoApply", 1282),
          Lock(1227), Write("purityCache", 1228), Write("autoApply", 1233),
          Unlock(1235), Read("autoApply", 1249), Send(1249)>>},
       ShowHighlightPaths)

\* the select at the top of the loop, and the turn it lets through
Select == [op |-> "select", what |-> "ctx.Done", at |-> 1173]

ExitPath == <<Select>>

TurnPaths == Then({<<Select>>}, RetryPaths \cup MatchPaths) \cup {ExitPath}

\* the flows: the update loop, and the goroutines followed at once
Goroutines == {"go1"}

Flows == {"Run"} \cup Goroutines

IdleFlow == [path |-> <<>>, i |-> 0]

IdleFlows == [f \in Flows |-> IdleFlow]

\* the fields the session lock is there for
Guarded == {"currentClient", "autoWizard", "autoApply"}

ZeroConfig ==
  [AccountName |-> "", PurityThreshold |-> 0, NativeRequired |-> "",
   MatchMode |-> "", IntervalMin |-> 0, IntervalMax |-> 0,
   Active |-> FALSE, Cancel |-> FALSE]

\* no goroutine (pc = "none"): never started, or returned.  dels and failed
\* record the run so far: IPs deleted again, and whether a call has failed;
\* id names the goroutine, whatever slot its config is packed into
ZeroTask ==
  [pc |-> "none", client |-> "", ctxDone |-> FALSE, attempt |-> 0, ip |-> 0,
   interval |-> 0, dels |-> 0, failed |-> FALSE, id |-> 0]

FgIdle == [pc |-> "idle", cfg |-> 0, client |-> "", ips |-> <<>>, i |-> 0,
           interval |-> 0]

Say(kind) == [kind |-> kind, n |-> 0]

Init ==
  /\ currentClient = "a1"
  /\ mu = "free"
  /\ flows = IdleFlows
  /\ autoWizard = Nil
  /\ autoApply = 0
  /\ cfgs = [c \in Slots |-> ZeroConfig]
  /\ task = [c \in Slots |-> ZeroTask]
  /\ purityCache = [a \in 1..MaxRes |-> Nil]
  /\ pool = [a \in Accounts |-> <<>>]
  /\ nextRes = 1
  /\ fg = FgIdle
  /\ msg = Say("none")
  /\ crashed = FALSE
  /\ chat = {}

\* the update loop is between two updates
Ready == fg.pc = "idle" /\ ~crashed

\* a nil dereference: the process dies, its memory and its goroutines with it
Panic ==
  /\ crashed' = TRUE
  /\ msg' = Say("panic")
  /\ autoWizard' = Nil
  /\ autoApply' = 0
  /\ cfgs' = [c \in Slots |-> ZeroConfig]
  /\ task' = [c \in Slots |-> ZeroTask]
  /\ purityCache' = [a \in 1..MaxRes |-> Nil]
  /\ fg' = FgIdle
  /\ UNCHANGED <<lockVars, currentClient, pool, nextRes, chat>>

\* ------------------------------------------------------------ the wizard
\* startAutoIPWizard's guard
TaskRunning == autoApply # 0 /\ cfgs[autoApply].Active

\* &AutoIPWizard{Step: 1, ChatID: chatID}.  sent and old record the chat: the
\* keyboards (of Tracked) that this session has itself sent, and those that
\* the sessions it superseded had sent
NewWizard ==
  [Step |-> 1, AccountName |-> "", PurityThreshold |-> 0, NativeRequired |-> "",
   MatchMode |-> "", sent |-> {}, old |-> {}]

\* the keyboards a new session finds in the chat, left by the session it replaces
Superseded ==
  IF autoWizard = Nil THEN {}
  ELSE autoWizard[1].old \cup autoWizard[1].sent

\* a slot holds no goroutine: the config a session makes can go there
Free(c) == task[c].pc = "none"

\* /autoip without the check for a running task
StartAutoIPWizardUnguarded ==
  /\ Ready
  /\ \E c \in Slots : Free(c)
  /\ autoWizard' = <<[NewWizard EXCEPT !.old = Superseded]>>
  /\ msg' = Say("step1")
  /\ UNCHANGED <<lockVars, currentClient, autoApply, cfgs, task, purityCache, pool,
                 nextRes, fg, crashed, chat>>

\* /autoip
StartAutoIPWizard ==
  /\ Ready
  /\ IF TaskRunning
       THEN /\ msg' = Say("task_running")
            /\ UNCHANGED autoWizard
       ELSE /\ \E c \in Slots : Free(c)
            /\ autoWizard' = <<[NewWizard EXCEPT !.old = Superseded]>>
            /\ msg' = Say("step1")
  /\ UNCHANGED <<lockVars, currentClient, autoApply, cfgs, task, purityCache, pool,
                 nextRes, fg, crashed, chat>>

\* the object b.autoWizard points to
W == autoWizard[1]

\* every field of the Bot and of the flows that a wizard step leaves alone
WizardFrame ==
  UNCHANGED <<lockVars, currentClient, autoApply, cfgs, task, purityCache, pool, nextRes,
              fg, crashed>>

\* the keyboard of level k is the one the session's step has sent: 1..4 are the
\* keyboards of steps 1..4, 5 is the confirmation's, 6 the existing-IP prompt's
AtStep(k) ==
  CASE k \in 1..4 -> W.Step = k
    [] k = 5 -> W.Step = 6
    [] k = 6 -> W.Step = 6 /\ 6 \in W.sent

\* a button of keyboard k is pressed: the keyboard of the session's step, or
\* one that is still in the chat from an earlier step or an earlier session
Press(k) ==
  /\ Ready
  /\ autoWizard # Nil
  /\ AtStep(k) \/ (k \in StaleLevels /\ k \in chat)

\* handleAutoIPCallback without the nil check: wizard.Step = ... on a nil wizard
CbNoWizardUnchecked ==
  /\ Ready
  /\ autoWizard = Nil
  /\ Panic

\* handleAutoIPCallback with b.autoWizard == nil, for any sub-action
CbNoWizard ==
  /\ Ready
  /\ autoWizard = Nil
  /\ msg' = Say("need_autoip")
  /\ UNCHANGED autoWizard
  /\ WizardFrame
  /\ UNCHANGED chat

\* case "cancel" without b.autoWizard = nil
CbCancelKeepsSession ==
  /\ Ready
  /\ autoWizard # Nil
  /\ msg' = Say("cancelled")
  /\ UNCHANGED autoWizard
  /\ WizardFrame
  /\ UNCHANGED chat

\* case "cancel"
CbCancel ==
  /\ Ready
  /\ autoWizard # Nil
  /\ autoWizard' = Nil
  /\ msg' = Say("cancelled")
  /\ WizardFrame
  /\ UNCHANGED chat

\* case "account": Step 1 -> 2
CbAccount ==
  /\ Press(1)
  /\ \E v \in WizardAccounts :
       autoWizard' = <<[W EXCEPT !.AccountName = v, !.Step = 2,
                                 !.sent = @ \cup ({2} \cap Tracked)]>>
  /\ msg' = Say("step2")
  /\ WizardFrame
  /\ chat' = chat \cup ({2} \cap Tracked)

\* case "purity": Step 2 -> 3
CbPurity ==
  /\ Press(2)
  /\ \E v \in PurityButtons :
       autoWizard' = <<[W EXCEPT !.PurityThreshold = Atoi(v).val, !.Step = 3,
                                 !.sent = @ \cup ({3} \cap Tracked)]>>
  /\ msg' = Say("step3")
  /\ WizardFrame
  /\ chat' = chat \cup ({3} \cap Tracked)

\* case "native": Step 3 -> 4
CbNative ==
  /\ Press(3)
  /\ \E v \in NativeButtons :
       autoWizard' = <<[W EXCEPT !.NativeRequired = v, !.Step = 4,
                                 !.sent = @ \cup ({4} \cap Tracked)]>>
  /\ msg' = Say("step4")
  /\ WizardFrame
  /\ chat' = chat \cup ({4} \cap Tracked)

\* case "mode": Step 4 -> 5; the interval prompt carries no new keyboard
CbMode ==
  /\ Press(4)
  /\ \E v \in ModeButtons :
       autoWizard' = <<[W EXCEPT !.MatchMode = v, !.Step = 5]>>
  /\ msg' = Say("step5")
  /\ WizardFrame
  /\ UNCHANGED chat

\* ------------------------------------------------------ the interval text
\* handleIntervalInput without the swap of a range given the wrong way round
ParseIntervalNoSwap(raw) ==
  LET text == TrimSpace(raw)
      parts == SplitDash(text)
      bad(why) == [ok |-> FALSE, min |-> 0, max |-> 0, why |-> why]
      floor(lo, hi) ==
        IF lo < 10 THEN bad("too_small")
        ELSE [ok |-> TRUE, min |-> lo, max |-> hi, why |-> ""]
  IN IF \E i \in 1..Len(text) : text[i] = "-"
       THEN IF Len(parts) # 2 THEN bad("format")
            ELSE LET a == Atoi(TrimSpace(parts[1]))
                     b == Atoi(TrimSpace(parts[2]))
                 IN IF a.err \/ b.err THEN bad("number")
                    ELSE floor(a.val, b.val)
       ELSE LET a == Atoi(text)
            IN IF a.err THEN bad("number") ELSE floor(a.val, a.val)

\* handleIntervalInput up to its lock section: the parsed range or the refusal
ParseInterval(raw) ==
  LET text == TrimSpace(raw)
      parts == SplitDash(text)
      bad(why) == [ok |-> FALSE, min |-> 0, max |-> 0, why |-> why]
      floor(lo, hi) ==
        IF lo < 10 THEN bad("too_small")
        ELSE [ok |-> TRUE, min |-> lo, max |-> hi, why |-> ""]
  IN IF \E i \in 1..Len(text) : text[i] = "-"
       THEN IF Len(parts) # 2 THEN bad("format")
            ELSE LET a == Atoi(TrimSpace(parts[1]))
                     b == Atoi(TrimSpace(parts[2]))
                 IN IF a.err \/ b.err THEN bad("number")
                    ELSE IF a.val > b.val THEN floor(b.val, a.val)
                    ELSE floor(a.val, b.val)
       ELSE LET a == Atoi(text)
            IN IF a.err THEN bad("number") ELSE floor(a.val, a.val)

NewSlot == CHOOSE c \in Slots : Free(c) /\ \A d \in Slots : Free(d) => c <= d

\* showConfirmation's &AutoApplyConfig{...}
NewConfig(w, lo, hi) ==
  [AccountName |-> w.AccountName, PurityThreshold |-> w.PurityThreshold,
   NativeRequired |-> w.NativeRequired, MatchMode |-> w.MatchMode,
   IntervalMin |-> lo, IntervalMax |-> hi, Active |-> FALSE, Cancel |-> FALSE]

\* the heap once the garbage is collected.  A config lives while b.autoApply,
\* a goroutine or the running handler points to it; the live configs are
\* numbered from 1 in the order they were made
Pack(cf, ap, tk, f) ==
  LET live(d) == d = ap \/ tk[d].pc # "none" \/ f.cfg = d
      pos(d) == Cardinality({e \in Slots : live(e) /\ e <= d})
      n == Cardinality({d \in Slots : live(d)})
      src(i) == CHOOSE d \in Slots : live(d) /\ pos(d) = i
  IN [cfgs |-> [i \in Slots |-> IF i <= n THEN cf[src(i)] ELSE ZeroConfig],
      task |-> [i \in Slots |-> IF i <= n THEN tk[src(i)] ELSE ZeroTask],
      autoApply |-> IF ap = 0 THEN 0 ELSE pos(ap),
      fg |-> IF f.cfg = 0 THEN f ELSE [f EXCEPT !.cfg = pos(f.cfg)]]

\* the step leaves the configs cf, b.autoApply = ap, the goroutines tk and the
\* update loop at f
Heap(cf, ap, tk, f) ==
  LET h == Pack(cf, ap, tk, f)
  IN /\ cfgs' = h.cfgs
     /\ autoApply' = h.autoApply
     /\ task' = h.task
     /\ fg' = h.fg

\* handleMessage without the test of wizard.Step
HandleTextAnyStep(raw) ==
  /\ Ready
  /\ IF autoWizard # Nil
       THEN LET r == ParseInterval(raw)
            IN IF r.ok
                 THEN /\ \E c \in Slots : Free(c)
                      /\ autoWizard' = <<[W EXCEPT !.Step = 6,
                                         !.sent = @ \cup ({5} \cap Tracked)]>>
                      /\ Heap([cfgs EXCEPT ![NewSlot] =
                                 NewConfig(W, r.min, r.max)],
                              NewSlot, task, fg)
                      /\ msg' = Say("confirm")
                      /\ chat' = chat \cup ({5} \cap Tracked)
                 ELSE /\ msg' = Say(r.why)
                      /\ UNCHANGED <<autoWizard, autoApply, cfgs, task, fg,
                                     chat>>
       ELSE /\ msg' = Say("use_help")
            /\ UNCHANGED <<autoWizard, autoApply, cfgs, task, fg, chat>>
  /\ UNCHANGED <<lockVars, currentClient, purityCache, pool, nextRes, crashed>>

\* handleMessage with showConfirmation storing the policy into the handles
\* of the running goroutines as well, not only into a fresh one
HandleTextSharesConfig(raw) ==
  /\ Ready
  /\ IF autoWizard # Nil /\ W.Step = 5
       THEN LET r == ParseInterval(raw)
            IN IF r.ok
                 THEN /\ \E c \in Slots : Free(c)
                      /\ autoWizard' = <<[W EXCEPT !.Step = 6,
                                         !.sent = @ \cup ({5} \cap Tracked)]>>
                      /\ Heap([c \in Slots |->
                                 IF c = NewSlot
                                   THEN NewConfig(W, r.min, r.max)
                                   ELSE IF task[c].pc # "none"
                                     THEN [NewConfig(W, r.min, r.max) EXCEPT
                                             !.Active = cfgs[c].Active,
                                             !.Cancel = cfgs[c].Cancel]
                                     ELSE cfgs[c]],
                              NewSlot, task, fg)
                      /\ msg' = Say("confirm")
                      /\ chat' = chat \cup ({5} \cap Tracked)
                 ELSE /\ msg' = Say(r.why)
                      /\ UNCHANGED <<autoWizard, autoApply, cfgs, task, fg,
                                     chat>>
       ELSE /\ msg' = Say("use_help")
            /\ UNCHANGED <<autoWizard, autoApply, cfgs, task, fg, chat>>
  /\ UNCHANGED <<lockVars, currentClient, purityCache, pool, nextRes, crashed>>

\* handleMessage for the text raw, which is no command
HandleText(raw) ==
  /\ Ready
  /\ IF autoWizard # Nil /\ W.Step = 5
       THEN LET r == ParseInterval(raw)
            IN IF r.ok
                 THEN /\ \E c \in Slots : Free(c)
                      /\ autoWizard' = <<[W EXCEPT !.Step = 6,
                                         !.sent = @ \cup ({5} \cap Tracked)]>>
                      /\ Heap([cfgs EXCEPT ![NewSlot] =
                                 NewConfig(W, r.min, r.max)],
                              NewSlot, task, fg)
                      /\ msg' = Say("confirm")
                      /\ chat' = chat \cup ({5} \cap Tracked)
                 ELSE /\ msg' = Say(r.why)
                      /\ UNCHANGED <<autoWizard, autoApply, cfgs, task, fg,
                                     chat>>
       ELSE /\ msg' = Say("use_help")
            /\ UNCHANGED <<autoWizard, autoApply, cfgs, task, fg, chat>>
  /\ UNCHANGED <<lockVars, currentClient, purityCache, pool, nextRes, crashed>>

\* a text that is no command arrives
TextMessage == \E raw \in IntervalTexts : HandleText(raw)

\* --------------------------------------------- confirmation and the start
\* b.clients[name]: the client, or "" for the nil a missing key gives
ClientOf(name) == IF name \in Accounts THEN name ELSE ""

\* the name of a new goroutine: the least one that no running goroutine has
NewId ==
  CHOOSE i \in Slots :
    /\ \A d \in Slots : task[d].pc # "none" => task[d].id # i
    /\ \A j \in 1..(i - 1) : \E d \in Slots : task[d].pc # "none" /\ task[d].id = j

\* doStartAutoApply: the lock section, the go statement and the reply
DoStart(c, client) ==
  /\ cfgs' = [cfgs EXCEPT ![c].Cancel = TRUE, ![c].Active = TRUE]
  /\ autoWizard' = Nil
  /\ task' = [task EXCEPT ![c] = [ZeroTask EXCEPT !.pc = "top", !.client = client,
                                                  !.id = NewId]]

\* case "confirm": startAutoApplyTask up to the ListReservedIPs call
CbConfirm ==
  /\ Press(5)
  /\ IF autoApply = 0
       THEN msg' = Say("expired") /\ UNCHANGED fg
       ELSE IF cfgs[autoApply].AccountName \notin Accounts
       THEN msg' = Say("no_account") /\ UNCHANGED fg
       ELSE /\ fg' = [FgIdle EXCEPT !.pc = "confirm_list", !.cfg = autoApply,
                                    !.client = cfgs[autoApply].AccountName]
            /\ msg' = Say("none")
  /\ UNCHANGED <<lockVars, currentClient, autoWizard, autoApply, cfgs, task, purityCache,
                 pool, nextRes, crashed, chat>>

\* startAutoApplyTask once ListReservedIPs has returned
ConfirmListed ==
  /\ fg.pc = "confirm_list"
  /\ ~crashed
  /\ \/ /\ DoStart(fg.cfg, fg.client)
        /\ msg' = Say("started_unlisted")   \* the listing failed: "continue anyway"
        /\ fg' = FgIdle
        /\ UNCHANGED <<autoApply, chat>>
     \/ /\ pool[fg.client] = <<>>
        /\ DoStart(fg.cfg, fg.client)
        /\ msg' = Say("started")
        /\ fg' = FgIdle
        /\ UNCHANGED <<autoApply, chat>>
     \/ /\ pool[fg.client] # <<>>
        /\ msg' = [kind |-> "prompt", n |-> Len(pool[fg.client])]
        /\ autoWizard' = IF autoWizard = Nil THEN Nil ELSE <<[W EXCEPT !.sent = @ \cup {6}]>>
        /\ Heap(cfgs, autoApply, task, FgIdle)
        /\ chat' = chat \cup {6}
  /\ UNCHANGED <<lockVars, currentClient, purityCache, pool, nextRes, crashed>>

\* case "keepstart"
CbKeepStart ==
  /\ Press(6)
  /\ IF autoApply = 0
       THEN Panic                   \* config.AccountName on a nil config
       ELSE /\ DoStart(autoApply, ClientOf(cfgs[autoApply].AccountName))
            /\ msg' = Say("started_keep")
            /\ UNCHANGED <<lockVars, currentClient, autoApply, purityCache, pool, nextRes,
                           fg, crashed, chat>>

\* the choice of the interval with rand.Intn(max-min+2)
IntervalsPastMax(lo, hi) ==
  IF hi > lo THEN {lo + r : r \in 0..(hi - lo + 1)} ELSE {lo}

\* waitInterval's and the purge loop's choice of the interval
Intervals(lo, hi) ==
  IF hi > lo THEN {lo + r : r \in 0..(hi - lo)} ELSE {lo}

\* case "delall": deleteAllIPsAndStart up to the ListReservedIPs call
CbDelAll ==
  /\ Press(6)
  /\ IF autoApply = 0
       THEN msg' = Say("expired") /\ UNCHANGED fg
       ELSE IF cfgs[autoApply].AccountName \notin Accounts
       THEN msg' = Say("no_account") /\ UNCHANGED fg
       ELSE /\ fg' = [FgIdle EXCEPT !.pc = "purge_list", !.cfg = autoApply,
                                    !.client = cfgs[autoApply].AccountName]
            /\ msg' = Say("none")
  /\ UNCHANGED <<lockVars, currentClient, autoWizard, autoApply, cfgs, task, purityCache,
                 pool, nextRes, crashed, chat>>

\* deleteAllIPsAndStart once ListReservedIPs has returned
PurgeListed ==
  /\ fg.pc = "purge_list"
  /\ ~crashed
  /\ \/ /\ msg' = Say("list_failed")
        /\ Heap(cfgs, autoApply, task, FgIdle)
        /\ UNCHANGED autoWizard
     \/ /\ pool[fg.client] = <<>>
        /\ fg' = FgIdle
        /\ DoStart(fg.cfg, fg.client)
        /\ msg' = Say("started_purged")
        /\ UNCHANGED autoApply
     \/ /\ pool[fg.client] # <<>>
        /\ fg' = [fg EXCEPT !.pc = "purge_delete", !.ips = pool[fg.client], !.i = 1]
        /\ msg' = [kind |-> "deleting", n |-> 1]
        /\ UNCHANGED <<autoWizard, autoApply, cfgs, task>>
  /\ UNCHANGED <<lockVars, currentClient, purityCache, pool, nextRes, crashed, chat>>

Remove(seq, x) == SelectSeq(seq, LAMBDA y : y # x)

\* the purge loop with a return on a failed delete
PurgeDeletedStopsOnFailure ==
  /\ fg.pc = "purge_delete"
  /\ ~crashed
  /\ \/ /\ pool' = [pool EXCEPT ![fg.client] = Remove(@, fg.ips[fg.i])]
        /\ IF fg.i < Len(fg.ips)
             THEN /\ \E t \in Intervals(cfgs[fg.cfg].IntervalMin,
                                        cfgs[fg.cfg].IntervalMax) :
                       fg' = [fg EXCEPT !.pc = "purge_sleep", !.interval = t]
                  /\ msg' = Say("waiting")
                  /\ UNCHANGED <<autoWizard, autoApply, cfgs, task>>
             ELSE /\ fg' = FgIdle
                  /\ DoStart(fg.cfg, fg.client)
                  /\ msg' = Say("started_purged")
                  /\ UNCHANGED autoApply
     \/ /\ msg' = Say("delete_failed")
        /\ Heap(cfgs, autoApply, task, FgIdle)
        /\ UNCHANGED <<autoWizard, pool>>
  /\ UNCHANGED <<lockVars, currentClient, purityCache, nextRes, crashed, chat>>

\* one DeleteReservedIP of the purge loop has returned
PurgeDeleted ==
  /\ fg.pc = "purge_delete"
  /\ ~crashed
  /\ \/ /\ pool' = [pool EXCEPT ![fg.client] = Remove(@, fg.ips[fg.i])]
     \/ UNCHANGED pool              \* the delete failed: reported, loop goes on
  /\ IF fg.i < Len(fg.ips)
       THEN /\ \E t \in Intervals(cfgs[fg.cfg].IntervalMin, cfgs[fg.cfg].IntervalMax) :
                 fg' = [fg EXCEPT !.pc = "purge_sleep", !.interval = t]
            /\ msg' = Say("waiting")
            /\ UNCHANGED <<autoWizard, cfgs, task>>
       ELSE /\ fg' = FgIdle
            /\ DoStart(fg.cfg, fg.client)
            /\ msg' = Say("started_purged")
  /\ UNCHANGED <<lockVars, currentClient, autoApply, purityCache, nextRes,
                 crashed, chat>>

\* time.Sleep of the purge loop is over
PurgeSlept ==
  /\ fg.pc = "purge_sleep"
  /\ ~crashed
  /\ fg' = [fg EXCEPT !.pc = "purge_delete", !.i = fg.i + 1, !.interval = 0]
  /\ msg' = [kind |-> "deleting", n |-> fg.i + 1]
  /\ UNCHANGED <<lockVars, currentClient, autoWizard, autoApply, cfgs, task, purityCache,
                 pool, nextRes, crashed, chat>>

\* /stopauto without the call of config.Cancel
StopAutoApplyNoCancel ==
  /\ Ready
  /\ IF autoApply = 0 \/ ~cfgs[autoApply].Active
       THEN /\ msg' = Say("no_task")
            /\ UNCHANGED <<autoApply, cfgs>>
       ELSE /\ cfgs' = [cfgs EXCEPT ![autoApply].Active = FALSE]
            /\ autoApply' = 0
            /\ msg' = Say("stopped")
  /\ UNCHANGED <<lockVars, currentClient, autoWizard, task, purityCache, pool, nextRes, fg,
                 crashed, chat>>

\* /stopauto without the test of config.Active
StopAutoApplyAnyHandle ==
  /\ Ready
  /\ IF autoApply = 0
       THEN /\ msg' = Say("no_task")
            /\ UNCHANGED <<autoApply, cfgs, task>>
       ELSE /\ task' = [task EXCEPT ![autoApply].ctxDone =
                          @ \/ cfgs[autoApply].Cancel]
            /\ cfgs' = [cfgs EXCEPT ![autoApply].Active = FALSE]
            /\ autoApply' = 0
            /\ msg' = Say("stopped")
  /\ UNCHANGED <<lockVars, currentClient, autoWizard, purityCache, pool, nextRes, fg, crashed, chat>>

\* /stopauto
StopAutoApply ==
  /\ Ready
  /\ IF autoApply = 0 \/ ~cfgs[autoApply].Active
       THEN /\ msg' = Say("no_task")
            /\ UNCHANGED <<autoApply, cfgs, task>>
       ELSE /\ task' = [task EXCEPT ![autoApply].ctxDone =
                          @ \/ cfgs[autoApply].Cancel]
            /\ cfgs' = [cfgs EXCEPT ![autoApply].Active = FALSE]
            /\ autoApply' = 0
            /\ msg' = Say("stopped")
  /\ UNCHANGED <<lockVars, currentClient, autoWizard, purityCache, pool, nextRes, fg, crashed, chat>>

\* ------------------------------------------------ the auto-apply goroutine
\* checkIPMatch with purity >= config.PurityThreshold
CheckIPMatchAtLeast(info, config) ==
  LET a == Atoi(TrimSuffixPct(info.PurityScore))
      purity == IF a.err THEN 100 ELSE a.val
      purityOK == purity >= config.PurityThreshold
      nativeOK == \/ config.NativeRequired = "any"
                  \/ info.IsNative = config.NativeRequired
  IN IF config.MatchMode = "all" THEN purityOK /\ nativeOK
     ELSE purityOK \/ nativeOK

\* checkIPMatch with the two modes exchanged
CheckIPMatchModesSwapped(info, config) ==
  LET a == Atoi(TrimSuffixPct(info.PurityScore))
      purity == IF a.err THEN 100 ELSE a.val
      purityOK == purity <= config.PurityThreshold
      nativeOK == \/ config.NativeRequired = "any"
                  \/ info.IsNative = config.NativeRequired
  IN IF config.MatchMode = "all" THEN purityOK \/ nativeOK
     ELSE purityOK /\ nativeOK

\* checkIPMatch with purity < config.PurityThreshold
CheckIPMatchBelow(info, config) ==
  LET a == Atoi(TrimSuffixPct(info.PurityScore))
      purity == IF a.err THEN 100 ELSE a.val
      purityOK == purity < config.PurityThreshold
      nativeOK == \/ config.NativeRequired = "any"
                  \/ info.IsNative = config.NativeRequired
  IN IF config.MatchMode = "all" THEN purityOK /\ nativeOK
     ELSE purityOK \/ nativeOK

\* checkIPMatch
CheckIPMatch(info, config) ==
  LET a == Atoi(TrimSuffixPct(info.PurityScore))
      purity == IF a.err THEN 100 ELSE a.val
      purityOK == purity <= config.PurityThreshold
      nativeOK == \/ config.NativeRequired = "any"
                  \/ info.IsNative = config.NativeRequired
  IN IF config.MatchMode = "all" THEN purityOK /\ nativeOK
     ELSE purityOK \/ nativeOK

CtlFrame ==
  UNCHANGED <<lockVars, currentClient, autoWizard>>

\* the goroutine returns
Exit(c) == Heap(cfgs, autoApply, [task EXCEPT ![c] = ZeroTask], fg)

\* the goroutine goes on to its next call, which leaves it at t.  With ctx
\* cancelled that call and the ones after it return an error at once,
\* waitInterval returns at once, and the select at the top of the loop returns
Proceed(c, t) ==
  IF task[c].ctxDone THEN Exit(c)
  ELSE task' = [task EXCEPT ![c] = t] /\ UNCHANGED <<autoApply, cfgs, fg>>

\* b.waitInterval(ctx, config) is entered
Sleep(c, t) ==
  \E d \in Intervals(cfgs[c].IntervalMin, cfgs[c].IntervalMax) :
    Proceed(c, [t EXCEPT !.pc = "sleep", !.ip = 0, !.interval = d])

\* the loop without the select on ctx.Done() at its top
CtlTopNoSelect(c) ==
  /\ task[c].pc \in {"top", "sleep"}
  /\ ~crashed
  /\ task[c].ctxDone \/ task[c].attempt < MaxAttempts
  /\ IF task[c].client = ""
       THEN Panic
       ELSE /\ task' = [task EXCEPT ![c] = [@ EXCEPT !.pc = "create",
                                                     !.attempt = @ + 1,
                                                     !.interval = 0]]
            /\ msg' = Say("none")
            /\ UNCHANGED <<autoApply, cfgs, fg, purityCache, pool, nextRes,
                           crashed, chat>>
            /\ CtlFrame

\* the goroutine gets to run, or waitInterval returns (the timer fired or
\* ctx.Done() was closed): the select at the top of the loop, then attempt++
\* up to the CreateReservedIP call, which dereferences its receiver at once
CtlTop(c) ==
  /\ task[c].pc \in {"top", "sleep"}
  /\ ~crashed
  /\ task[c].ctxDone \/ task[c].attempt < MaxAttempts
  /\ IF ~task[c].ctxDone /\ task[c].client = ""
       THEN Panic                   \* c.compartmentID on a nil *Client
       ELSE /\ Proceed(c, [task[c] EXCEPT !.pc = "create", !.attempt = @ + 1,
                                          !.interval = 0])
            /\ msg' = Say("none")
            /\ UNCHANGED <<purityCache, pool, nextRes, crashed, chat>>
            /\ CtlFrame

\* the loop provisioning with b.currentClient in place of its own client
CtlCreatedOnCurrent(c) ==
  /\ task[c].pc = "create"
  /\ ~crashed
  /\ \/ /\ nextRes <= MaxRes
        /\ pool' = [pool EXCEPT ![currentClient] = Append(@, nextRes)]
        /\ nextRes' = nextRes + 1
        /\ Proceed(c, [task[c] EXCEPT !.pc = "wait", !.ip = nextRes])
     \/ /\ Sleep(c, [task[c] EXCEPT !.failed = TRUE])
        /\ UNCHANGED <<pool, nextRes>>
  /\ msg' = Say("none")
  /\ UNCHANGED <<purityCache, crashed, chat>>
  /\ CtlFrame

\* client.CreateReservedIP has returned; on success up to the WaitForIPReady
\* call
CtlCreated(c) ==
  /\ task[c].pc = "create"
  /\ ~crashed
  /\ \/ /\ nextRes <= MaxRes
        /\ pool' = [pool EXCEPT ![task[c].client] = Append(@, nextRes)]
        /\ nextRes' = nextRes + 1
        /\ Proceed(c, [task[c] EXCEPT !.pc = "wait", !.ip = nextRes])
     \/ /\ Sleep(c, [task[c] EXCEPT !.failed = TRUE])
        /\ UNCHANGED <<pool, nextRes>>
  /\ msg' = Say("none")
  /\ UNCHANGED <<purityCache, crashed, chat>>
  /\ CtlFrame

InPool(acct, ip) == \E i \in 1..Len(pool[acct]) : pool[acct][i] = ip

\* the loop going on to ippure.Check though WaitForIPReady has failed
CtlWaitedChecksAnyway(c) ==
  /\ task[c].pc = "wait"
  /\ ~crashed
  /\ \/ /\ InPool(task[c].client, task[c].ip)
        /\ Proceed(c, [task[c] EXCEPT !.pc = "check"])
     \/ Proceed(c, [task[c] EXCEPT !.pc = "check", !.failed = TRUE])
  /\ msg' = Say("none")
  /\ UNCHANGED <<purityCache, pool, nextRes, crashed, chat>>
  /\ CtlFrame

\* client.WaitForIPReady has returned; on success up to the ippure.Check call
CtlWaited(c) ==
  /\ task[c].pc = "wait"
  /\ ~crashed
  /\ \/ /\ InPool(task[c].client, task[c].ip)
        /\ Proceed(c, [task[c] EXCEPT !.pc = "check"])
     \/ Sleep(c, [task[c] EXCEPT !.failed = TRUE])
  /\ msg' = Say("none")
  /\ UNCHANGED <<purityCache, pool, nextRes, crashed, chat>>
  /\ CtlFrame

CacheEntry(info) == [PurityScore |-> info.PurityScore, IsNative |-> info.IsNative]

\* the loop without the DeleteReservedIP of the mismatch branch
CtlCheckedKeepsMismatch(c) ==
  /\ task[c].pc = "check"
  /\ ~crashed
  /\ \/ \E info \in Infos :
          IF CheckIPMatch(info, cfgs[c])
            THEN /\ purityCache' = [purityCache EXCEPT ![task[c].ip] =
                                      <<CacheEntry(info)>>]
                 /\ Heap([cfgs EXCEPT ![c].Active = FALSE], 0,
                         [task EXCEPT ![c].pc = "show"], fg)
                 /\ msg' = [kind |-> "match", n |-> task[c].attempt]
            ELSE /\ Sleep(c, task[c])
                 /\ msg' = Say("none")
                 /\ UNCHANGED purityCache
     \/ /\ Sleep(c, [task[c] EXCEPT !.failed = TRUE])
        /\ msg' = Say("none")
        /\ UNCHANGED purityCache
  /\ UNCHANGED <<pool, nextRes, crashed, chat>>
  /\ CtlFrame

\* the match branch without b.autoApply = nil and config.Active = false
IPCheckedKeepsHandle(c, infos) ==
  /\ task[c].pc = "check"
  /\ ~crashed
  /\ \/ \E info \in infos :
          IF CheckIPMatch(info, cfgs[c])
            THEN /\ purityCache' = [purityCache EXCEPT ![task[c].ip] =
                                      <<CacheEntry(info)>>]
                 /\ Heap(cfgs, autoApply, [task EXCEPT ![c].pc = "show"], fg)
                 /\ msg' = [kind |-> "match", n |-> task[c].attempt]
            ELSE /\ Proceed(c, [task[c] EXCEPT !.pc = "delete"])
                 /\ msg' = Say("none")
                 /\ UNCHANGED purityCache
     \/ /\ Sleep(c, [task[c] EXCEPT !.failed = TRUE])
        /\ msg' = Say("none")
        /\ UNCHANGED purityCache
  /\ UNCHANGED <<pool, nextRes, crashed, chat>>
  /\ CtlFrame

\* the loop deleting the IP when ippure.Check has failed
IPCheckedDeletesOnError(c, infos) ==
  /\ task[c].pc = "check"
  /\ ~crashed
  /\ \/ \E info \in infos :
          IF CheckIPMatch(info, cfgs[c])
            THEN /\ purityCache' = [purityCache EXCEPT ![task[c].ip] =
                                      <<CacheEntry(info)>>]
                 /\ Heap([cfgs EXCEPT ![c].Active = FALSE], 0,
                         [task EXCEPT ![c].pc = "show"], fg)
                 /\ msg' = [kind |-> "match", n |-> task[c].attempt]
            ELSE /\ Proceed(c, [task[c] EXCEPT !.pc = "delete"])
                 /\ msg' = Say("none")
                 /\ UNCHANGED purityCache
     \/ /\ Proceed(c, [task[c] EXCEPT !.pc = "delete", !.failed = TRUE])
        /\ msg' = Say("none")
        /\ UNCHANGED purityCache
  /\ UNCHANGED <<pool, nextRes, crashed, chat>>
  /\ CtlFrame

\* the loop with the mismatching IP's DeleteReservedIP handed to a goroutine
\* of its own: the next attempt's CreateReservedIP is called at once
IPCheckedDeletesAside(c, infos) ==
  /\ task[c].pc = "check"
  /\ ~crashed
  /\ \/ \E info \in infos :
          IF CheckIPMatch(info, cfgs[c])
            THEN /\ purityCache' = [purityCache EXCEPT ![task[c].ip] =
                                      <<CacheEntry(info)>>]
                 /\ Heap([cfgs EXCEPT ![c].Active = FALSE], 0,
                         [task EXCEPT ![c].pc = "show"], fg)
                 /\ msg' = [kind |-> "match", n |-> task[c].attempt]
            ELSE /\ task[c].attempt < MaxAttempts
                 /\ Proceed(c, [task[c] EXCEPT !.pc = "create",
                                               !.attempt = @ + 1])
                 /\ msg' = Say("none")
                 /\ UNCHANGED purityCache
     \/ /\ Sleep(c, [task[c] EXCEPT !.failed = TRUE])
        /\ msg' = Say("none")
        /\ UNCHANGED purityCache
  /\ UNCHANGED <<pool, nextRes, crashed, chat>>
  /\ CtlFrame

\* ippure.Check has returned.  On success checkIPMatch; a match runs the lock
\* section and the notification up to the ListReservedIPs call of
\* showIPListWithHighlight, a mismatch runs up to the DeleteReservedIP call
IPChecked(c, infos) ==
  /\ task[c].pc = "check"
  /\ ~crashed
  /\ \/ \E info \in infos :
          IF CheckIPMatch(info, cfgs[c])
            THEN /\ purityCache' = [purityCache EXCEPT ![task[c].ip] =
                                      <<CacheEntry(info)>>]
                 /\ Heap([cfgs EXCEPT ![c].Active = FALSE], 0,
                         [task EXCEPT ![c].pc = "show"], fg)
                 /\ msg' = [kind |-> "match", n |-> task[c].attempt]
            ELSE /\ Proceed(c, [task[c] EXCEPT !.pc = "delete"])
                 /\ msg' = Say("none")
                 /\ UNCHANGED purityCache
     \/ /\ Sleep(c, [task[c] EXCEPT !.failed = TRUE])
        /\ msg' = Say("none")
        /\ UNCHANGED purityCache
  /\ UNCHANGED <<pool, nextRes, crashed, chat>>
  /\ CtlFrame

\* ippure.Check of the goroutine of slot c has returned
CtlChecked(c) == IPChecked(c, Infos)

\* showIPListWithHighlight has listed (or failed to) and replied: return
CtlShown(c) ==
  /\ task[c].pc = "show"
  /\ ~crashed
  /\ Exit(c)
  /\ msg' = Say("ip_list")
  /\ UNCHANGED <<purityCache, pool, nextRes, crashed, chat>>
  /\ CtlFrame

\* the mismatch branch with a return on a failed DeleteReservedIP
CtlDeletedAbortsOnFailure(c) ==
  /\ task[c].pc = "delete"
  /\ ~crashed
  /\ \/ /\ pool' = [pool EXCEPT ![task[c].client] = Remove(@, task[c].ip)]
        /\ Sleep(c, [task[c] EXCEPT !.dels = @ + 1])
     \/ /\ Exit(c)
        /\ UNCHANGED pool
  /\ msg' = Say("none")
  /\ UNCHANGED <<purityCache, nextRes, crashed, chat>>
  /\ CtlFrame

\* the mismatch branch: client.DeleteReservedIP has returned, the error if any
\* is logged and b.waitInterval(ctx, config) entered
CtlDeleted(c) ==
  /\ task[c].pc = "delete"
  /\ ~crashed
  /\ \/ /\ pool' = [pool EXCEPT ![task[c].client] = Remove(@, task[c].ip)]
        /\ Sleep(c, [task[c] EXCEPT !.dels = @ + 1])
     \/ /\ Sleep(c, [task[c] EXCEPT !.failed = TRUE])
        /\ UNCHANGED pool
  /\ msg' = Say("none")
  /\ UNCHANGED <<purityCache, nextRes, crashed, chat>>
  /\ CtlFrame

Controller(c) ==
  \/ CtlTop(c)
  \/ CtlCreated(c)
  \/ CtlWaited(c)
  \/ CtlChecked(c)
  \/ CtlShown(c)
  \/ CtlDeleted(c)

Next ==
  \/ StartAutoIPWizard
  \/ CbNoWizard
  \/ CbCancel
  \/ CbAccount
  \/ CbPurity
  \/ CbNative
  \/ CbMode
  \/ TextMessage
  \/ CbConfirm
  \/ ConfirmListed
  \/ CbKeepStart
  \/ CbDelAll
  \/ PurgeListed
  \/ PurgeDeleted
  \/ PurgeSlept
  \/ StopAutoApply
  \/ \E c \in Slots : Controller(c)

Spec == Init /\ [][Next]_vars

\* the button pressed is one of the keyboard that the session's step has sent
Own(k) == autoWizard # Nil /\ AtStep(k)

\* the program with an operator who sends only what it is waiting for: the
\* buttons of the current keyboard, a text at the interval step, /autoip when
\* no session is open and no task active, /stopauto when a task is active
FairNext ==
  \/ autoWizard = Nil /\ ~TaskRunning /\ StartAutoIPWizard
  \/ CbCancel
  \/ Own(1) /\ CbAccount
  \/ Own(2) /\ CbPurity
  \/ Own(3) /\ CbNative
  \/ Own(4) /\ CbMode
  \/ autoWizard # Nil /\ W.Step = 5 /\ TextMessage
  \/ Own(5) /\ CbConfirm
  \/ ConfirmListed
  \/ Own(6) /\ CbKeepStart
  \/ Own(6) /\ CbDelAll
  \/ PurgeListed
  \/ PurgeDeleted
  \/ PurgeSlept
  \/ TaskRunning /\ StopAutoApply
  \/ \E c \in Slots : Controller(c)

\* every goroutine gets to run, and every call it makes returns
FairSpec ==
  Init /\ [][FairNext]_vars /\ \A c \in Slots : WF_vars(Controller(c))

\* ------------------------------------------------------ the account switch
\* arguments of /use: the loaded accounts and a name that is no key of b.clients
UseNames == Accounts \cup {"zz"}

\* switchAccount with the assignment done before the lookup's ok is tested
SwitchAccountUnchecked(name) ==
  /\ Ready
  /\ currentClient' = name
  /\ msg' = Say("ip_list_current")
  /\ UNCHANGED <<lockVars, autoWizard, autoApply, cfgs, task, purityCache, pool,
                 nextRes, fg, crashed, chat>>

\* switchAccount: the lookup, the assignment under the lock, and showIPList
\* with its listing and its reply
SwitchAccount(name) ==
  /\ Ready
  /\ IF name \notin Accounts
       THEN /\ msg' = Say("no_such_account")
            /\ UNCHANGED currentClient
       ELSE /\ currentClient' = name
            /\ msg' = Say("ip_list_current")
  /\ UNCHANGED <<lockVars, autoWizard, autoApply, cfgs, task, purityCache, pool,
                 nextRes, fg, crashed, chat>>

\* /use <name>
UseCommand == \E name \in UseNames : SwitchAccount(name)

\* the program with the account switch among the events of an operator who
\* otherwise sends only what the program is waiting for
SessionNext ==
  \/ UseCommand
  \/ FairNext

SessionSpec == Init /\ [][SessionNext]_vars


\* ---------------------------------------------------- the manual commands
\* the addresses /checkip and /delip are given: those the provider hands out
Addresses == 1..MaxRes

\* every field of the Bot and of the flows that a manual command leaves alone
ManualFrame ==
  UNCHANGED <<lockVars, currentClient, autoWizard, autoApply, cfgs, task, fg,
              crashed, chat>>

\* deleteIP that also drops the address from b.purityCache
DeleteIPEvicts(a) ==
  /\ Ready
  /\ \/ /\ msg' = Say("error")
        /\ UNCHANGED <<pool, purityCache>>
     \/ /\ ~InPool(currentClient, a)
        /\ msg' = Say("not_found")
        /\ UNCHANGED <<pool, purityCache>>
     \/ /\ InPool(currentClient, a)
        /\ \/ /\ msg' = Say("error")
              /\ UNCHANGED <<pool, purityCache>>
           \/ /\ pool' = [pool EXCEPT ![currentClient] = Remove(@, a)]
              /\ purityCache' = [purityCache EXCEPT ![a] = Nil]
              /\ msg' = Say("deleted")
  /\ UNCHANGED nextRes
  /\ ManualFrame

\* deleteIP: the listing of the current account, the search for the address,
\* the DeleteReservedIP call, the reply and the list shown again
DeleteIP(a) ==
  /\ Ready
  /\ \/ /\ msg' = Say("error")
        /\ UNCHANGED pool
     \/ /\ ~InPool(currentClient, a)
        /\ msg' = Say("not_found")
        /\ UNCHANGED pool
     \/ /\ InPool(currentClient, a)
        /\ \/ /\ msg' = Say("error")
              /\ UNCHANGED pool
           \/ /\ pool' = [pool EXCEPT ![currentClient] = Remove(@, a)]
              /\ msg' = Say("deleted")
  /\ UNCHANGED <<purityCache, nextRes>>
  /\ ManualFrame

\* checkIP and checkIPFromCallback: ippure.Check, and on success the entry
\* written under the lock
CheckIP(a) ==
  /\ Ready
  /\ \/ /\ msg' = Say("check_failed")
        /\ UNCHANGED purityCache
     \/ \E info \in Infos :
          /\ purityCache' = [purityCache EXCEPT ![a] = <<CacheEntry(info)>>]
          /\ msg' = Say("checked")
  /\ UNCHANGED <<pool, nextRes>>
  /\ ManualFrame

\* createIP in the current account; auto is b.cfg.AutoCheckIP
CreateIP(auto) ==
  /\ Ready
  /\ \/ /\ msg' = Say("error")
        /\ UNCHANGED <<pool, nextRes, purityCache>>
     \/ /\ nextRes <= MaxRes
        /\ pool' = [pool EXCEPT ![currentClient] = Append(@, nextRes)]
        /\ nextRes' = nextRes + 1
        /\ \/ /\ msg' = Say("error")
              /\ UNCHANGED purityCache
           \/ /\ ~auto
              /\ msg' = Say("created")
              /\ UNCHANGED purityCache
           \/ /\ auto
              /\ msg' = Say("created_unchecked")
              /\ UNCHANGED purityCache
           \/ /\ auto
              /\ \E info \in Infos :
                   purityCache' = [purityCache EXCEPT ![nextRes] =
                                     <<CacheEntry(info)>>]
              /\ msg' = Say("created_checked")
  /\ ManualFrame

CheckCommand == \E a \in Addresses : CheckIP(a)

DeleteCommand == \E a \in Addresses : DeleteIP(a)

CreateCommand == \E auto \in BOOLEAN : CreateIP(auto)

\* the wizard and the task, with the manual commands sent while no wizard
\* session is open: before a session, and while a task runs or after it
CacheNext ==
  \/ autoWizard = Nil /\ CheckCommand
  \/ autoWizard = Nil /\ DeleteCommand
  \/ autoWizard = Nil /\ CreateCommand
  \/ FairNext

CacheSpec == Init /\ [][CacheNext]_vars

\* ------------------------------------------------------------- the senders
AdminID == 1                 \* b.adminID

Senders == {AdminID, 2}      \* From.ID of the updates: the admin and another

\* what an update that is turned away leaves alone: all but the reply
RefusedFrame ==
  UNCHANGED <<lockVars, currentClient, autoWizard, autoApply, cfgs, task,
              purityCache, pool, nextRes, fg, crashed, chat>>

\* the messages of the admin: /autoip, /stopauto, /use and the interval text
AdminMessage ==
  \/ autoWizard = Nil /\ ~TaskRunning /\ StartAutoIPWizard
  \/ TaskRunning /\ StopAutoApply
  \/ autoWizard # Nil /\ W.Step = 5 /\ TextMessage
  \/ UseCommand

\* the buttons of the admin
AdminCallback ==
  \/ CbCancel
  \/ Own(1) /\ CbAccount
  \/ Own(2) /\ CbPurity
  \/ Own(3) /\ CbNative
  \/ Own(4) /\ CbMode
  \/ Own(5) /\ CbConfirm
  \/ Own(6) /\ CbKeepStart
  \/ Own(6) /\ CbDelAll

\* handleCallback without the test of cb.From.ID
HandleCallbackUnchecked(from) == AdminCallback

\* handleMessage: whoever is not the admin gets the Unauthorized reply
HandleMessage(from) ==
  IF from # AdminID
    THEN Ready /\ msg' = Say("unauthorized") /\ RefusedFrame
    ELSE AdminMessage

\* handleCallback: a button pressed by another sender is dropped, unanswered
HandleCallback(from) ==
  IF from # AdminID
    THEN Ready /\ msg' = Say("none") /\ RefusedFrame
    ELSE AdminCallback

\* the update loop with updates of any sender, the handlers' later steps and
\* the goroutines
AdminNext ==
  \/ \E from \in Senders : HandleMessage(from)
  \/ \E from \in Senders : HandleCallback(from)
  \/ ConfirmListed
  \/ PurgeListed
  \/ PurgeDeleted
  \/ PurgeSlept
  \/ \E c \in Slots : Controller(c)

AdminSpec == Init /\ [][AdminNext]_vars

\* --------------------------------------------------- the flows and the lock
Busy(f) == flows[f].path # <<>>

\* the operation flow f is inside
Cur(f) == flows[f].path[flows[f].i]

\* Flow f goes into operation k of path p.  Lock returns once the mutex is
\* free and taken, Unlock gives it back, and the go statement starts a
\* goroutine at the top of its loop.
Enter(f, p, k) ==
  LET at == [path |-> p, i |-> k]
  IN  CASE p[k].op = "lock" ->
             /\ mu = "free"
             /\ mu' = f
             /\ flows' = [flows EXCEPT ![f] = at]
        [] p[k].op = "unlock" ->
             /\ mu = f
             /\ mu' = "free"
             /\ flows' = [flows EXCEPT ![f] = at]
        [] p[k].op = "go" ->
             /\ \E g \in Goroutines, t \in TurnPaths :
                  /\ ~Busy(g)
                  /\ flows' = [flows EXCEPT ![f] = at,
                                            ![g] = [path |-> t, i |-> 1]]
             /\ UNCHANGED mu
        [] OTHER ->
             /\ flows' = [flows EXCEPT ![f] = at]
             /\ UNCHANGED mu

\* Run takes the next update and calls its handler
Dispatch ==
  /\ ~Busy("Run")
  /\ \E p \in HandlerPaths : Enter("Run", p, 1)
  /\ UNCHANGED botVars

\* the operation a flow is inside is over and its next one begins
Advance(f) ==
  /\ Busy(f)
  /\ flows[f].i < Len(flows[f].path)
  /\ Enter(f, flows[f].path, flows[f].i + 1)
  /\ UNCHANGED botVars

\* the handler returns to the update loop
Returns ==
  /\ Busy("Run")
  /\ flows["Run"].i = Len(flows["Run"].path)
  /\ flows' = [flows EXCEPT !["Run"] = IdleFlow]
  /\ UNCHANGED <<mu, botVars>>

\* the Controller's turn is over: after waitInterval it is back at the
\* select, after the return statements it is gone
Loops(g) ==
  /\ Busy(g)
  /\ flows[g].i = Len(flows[g].path)
  /\ IF Cur(g).op = "sleep"
       THEN \E t \in TurnPaths : flows' = [flows EXCEPT ![g] = [path |-> t, i |-> 1]]
       ELSE flows' = [flows EXCEPT ![g] = IdleFlow]
  /\ UNCHANGED <<mu, botVars>>

LockNext ==
  \/ Dispatch
  \/ Returns
  \/ \E f \in Flows : Advance(f)
  \/ \E g \in Goroutines : Loops(g)

LockSpec == Init /\ [][LockNext]_vars

\* ------------------------------------------- the interval text on its own
\* what the buttons of the wizard's keyboards carry
AllPurityValues == {10, 20, 30, 50, 100}
AllNativeValues == {"native", "non_native", "any"}
AllModeValues == {"all", "any"}

\* the texts sent at the interval step: one, two or three parts around "-",
\* a part being a number or something else, some with blanks around them
NumberTokens ==
  { <<"5">>, <<"9">>, <<"1", "0">>, <<"1", "1">>, <<"2", "0", "0">>,
    <<"3", "0", "0">> }
OtherTokens == { <<>>, <<"x">>, <<"2", " ", "0">>, <<"+", "1", "2">> }
TextParts ==
  NumberTokens \cup OtherTokens
    \cup { <<" ">> \o t \o <<" ">> : t \in { <<"1", "0">>, <<>> } }
ProbeTexts ==
  TextParts
    \cup { a \o <<"-">> \o b : a \in TextParts, b \in TextParts }
    \cup { a \o <<"-">> \o b \o <<"-">> \o c :
             a \in {<<>>, <<"1", "0">>}, b \in {<<>>, <<"2", "0", "0">>},
             c \in {<<>>, <<"3", "0", "0">>} }

\* a session that has pressed its way to the interval step, nothing else going on
IntervalInit ==
  /\ currentClient = "a1"
  /\ mu = "free"
  /\ flows = IdleFlows
  /\ autoWizard \in
       { <<[Step |-> 5, AccountName |-> a, PurityThreshold |-> 20,
            NativeRequired |-> n, MatchMode |-> m,
            sent |-> {1, 2, 3, 4} \cap Tracked, old |-> {}]>> :
         a \in Accounts, n \in AllNativeValues, m \in AllModeValues }
  /\ autoApply = 0
  /\ cfgs = [c \in Slots |-> ZeroConfig]
  /\ task = [c \in Slots |-> ZeroTask]
  /\ purityCache = [a \in 1..MaxRes |-> Nil]
  /\ pool = [a \in Accounts |-> <<>>]
  /\ nextRes = 1
  /\ fg = FgIdle
  /\ msg = Say("step5")
  /\ crashed = FALSE
  /\ chat = {1, 2, 3, 4} \cap Tracked

IntervalNext == \E raw \in ProbeTexts : HandleText(raw)

IntervalSpec == IntervalInit /\ [][IntervalNext]_vars

\* ------------------------------------------------ the policies on their own
\* classifications ippure.Check can return: the coefficient is a percentage
\* ("0%" .. "100%") or, when the page shows none, the default text; the origin
\* is one of the labels of the page
ProbeScores ==
  { <<"0", "%">>, <<"1", "0", "%">>, <<"2", "5", "%">>, <<"5", "0", "%">>,
    <<"5", "1", "%">>, <<"1", "0", "0", "%">>, <<"unknown">> }
ProbeOrigins == {"native", "non_native", "broadcast"}
ProbeInfos ==
  { [PurityScore |-> sc, IsNative |-> o] : sc \in ProbeScores, o \in ProbeOrigins }

\* the interval ranges of the policies: a single value and a proper range
ProbeRanges == { <<10, 10>>, <<10, 12>> }

\* the configs the wizard can build for account a1
Policies ==
  { [AccountName |-> "a1", PurityThreshold |-> t, NativeRequired |-> n,
     MatchMode |-> m, IntervalMin |-> r[1], IntervalMax |-> r[2],
     Active |-> FALSE, Cancel |-> FALSE] :
    t \in AllPurityValues, n \in AllNativeValues, m \in AllModeValues,
    r \in ProbeRanges }

\* the task of policy p has been started and has its first IP at ippure.Check
AtCheck(p) ==
  /\ autoWizard = Nil
  /\ cfgs = [c \in Slots |->
               IF c = 1 THEN [p EXCEPT !.Active = TRUE, !.Cancel = TRUE]
               ELSE ZeroConfig]
  /\ task = [c \in Slots |->
               IF c = 1
                 THEN [ZeroTask EXCEPT !.pc = "check", !.client = "a1",
                                       !.attempt = 1, !.ip = 1, !.id = 1]
                 ELSE ZeroTask]
  /\ pool = [a \in Accounts |-> IF a = "a1" THEN <<1>> ELSE <<>>]
  /\ nextRes = 2
  /\ fg = FgIdle
  /\ msg = Say("none")
  /\ chat = {1, 2, 3, 4, 5} \cap Tracked

\* policy p is pending, the account holds two IPs, and "delete all" has been
\* pressed at the prompt: the purge loop is at its first DeleteReservedIP
AtPurge(p) ==
  /\ autoWizard =
       <<[Step |-> 6, AccountName |-> p.AccountName,
          PurityThreshold |-> p.PurityThreshold,
          NativeRequired |-> p.NativeRequired, MatchMode |-> p.MatchMode,
          sent |-> {1, 2, 3, 4, 5, 6} \cap Tracked, old |-> {}]>>
  /\ cfgs = [c \in Slots |-> IF c = 1 THEN p ELSE ZeroConfig]
  /\ task = [c \in Slots |-> ZeroTask]
  /\ pool = [a \in Accounts |-> IF a = "a1" THEN <<1, 2>> ELSE <<>>]
  /\ nextRes = 3
  /\ fg = [FgIdle EXCEPT !.pc = "purge_delete", !.cfg = 1, !.client = "a1",
                         !.ips = <<1, 2>>, !.i = 1]
  /\ msg = [kind |-> "deleting", n |-> 1]
  /\ chat = {1, 2, 3, 4, 5, 6} \cap Tracked

PolicyInit ==
  /\ currentClient = "a1"
  /\ mu = "free"
  /\ flows = IdleFlows
  /\ autoApply = 1
  /\ purityCache = [a \in 1..MaxRes |-> Nil]
  /\ crashed = FALSE
  /\ \E p \in Policies : AtCheck(p) \/ AtPurge(p)

\* the purge loop and the goroutine, with every classification of ProbeInfos
PolicyNext ==
  \/ PurgeDeleted
  \/ PurgeSlept
  \/ \E c \in Slots : CtlTop(c)
  \/ \E c \in Slots : CtlCreated(c)
  \/ \E c \in Slots : CtlWaited(c)
  \/ \E c \in Slots : IPChecked(c, ProbeInfos)
  \/ \E c \in Slots : CtlShown(c)
  \/ \E c \in Slots : CtlDeleted(c)

PolicySpec == PolicyInit /\ [][PolicyNext]_vars

\* ------------------------------------------------------------ well-formedness
TypeOK ==
  /\ currentClient \in Accounts
  /\ autoApply \in 0..MaxConfigs
  /\ nextRes \in 1..(MaxRes + 1)
  /\ crashed \in BOOLEAN
  /\ chat \subseteq Tracked
  /\ autoWizard # Nil => W.Step \in 1..6 /\ W.sent \subseteq Tracked /\ W.old \subseteq Tracked
  /\ \A c \in Slots : task[c].attempt \in 0..MaxAttempts
  /\ \A c \in Slots : task[c].id \in 0..MaxConfigs
  /\ \A c, d \in Slots :
       (c # d /\ task[c].pc # "none" /\ task[d].pc # "none") => task[c].id # task[d].id
  /\ fg.pc \in {"idle", "confirm_list", "purge_list", "purge_delete", "purge_sleep"}

\* ------------------------------------------------------------------ claims
\* the goroutines that have been started and have not returned
Running == {c \in Slots : task[c].pc # "none"}

\* C1: at most one runAutoApplyTask loop has been started and has not yet
\* exited, in every reachable state
C1_AtMostOneController == Cardinality(Running) <= 1

\* C2: /autoip while b.autoApply is set and Active is rejected: no wizard is
\* made, and the TaskHandle, its config and its goroutine (its ctx too) stay
\* as they are
C2_AutoIPRejectedWhileActive ==
  [][(TaskRunning /\ StartAutoIPWizard) =>
       /\ msg'.kind = "task_running"
       /\ autoWizard' = Nil
       /\ UNCHANGED <<autoWizard, autoApply, cfgs, task>>]_vars

\* /autoip has been refused while the goroutine of b.autoApply is in a call
C2_Witness ==
  /\ msg.kind = "task_running"
  /\ TaskRunning
  /\ task[autoApply].pc = "check"
  /\ ~task[autoApply].ctxDone

\* the buttons of keyboard k
ButtonOf(k) ==
  CASE k = 1 -> CbAccount
    [] k = 2 -> CbPurity
    [] k = 3 -> CbNative
    [] k = 4 -> CbMode
    [] k = 5 -> CbConfirm
    [] k = 6 -> CbKeepStart \/ CbDelAll

\* keyboard k is in the chat from a session that the current one superseded,
\* and the current session has not sent its own
SupersededButton(k) == autoWizard # Nil /\ k \in W.old /\ k \notin W.sent

\* C3: once /autoip has superseded a session, a button of the superseded
\* session leaves the wizard, the pending config and the tasks as they are
C3_SupersededButtonsRejected ==
  [][\A k \in 1..6 :
       (SupersededButton(k) /\ ButtonOf(k)) =>
         UNCHANGED <<autoWizard, autoApply, cfgs, task, fg>>]_vars

\* any button of the wizard's keyboards
WizardButton ==
  \/ CbNoWizard
  \/ CbCancel
  \/ \E k \in 1..6 : ButtonOf(k)

\* C4: a wizard button pressed while b.autoWizard is nil gets the "use
\* /autoip" notice and changes nothing of the session
C4_ButtonWithoutWizardRejected ==
  [][(autoWizard = Nil /\ WizardButton) =>
       /\ msg'.kind = "need_autoip"
       /\ UNCHANGED <<currentClient, autoWizard, autoApply, cfgs, task,
                      purityCache, fg>>]_vars

\* a button has been refused for want of a wizard while a task runs
C4_Witness == msg.kind = "need_autoip" /\ autoWizard = Nil /\ TaskRunning

\* an input to the session: a text, or a button of a keyboard that the
\* session itself has sent
OwnInput ==
  \/ TextMessage
  \/ \E k \in 1..4 : ButtonOf(k) /\ (W.Step = k \/ k \in W.sent)

\* C5: every input a session accepts moves its step forward by exactly one
C5_StepAdvancesByOne ==
  [][(autoWizard # Nil /\ OwnInput /\ autoWizard' # autoWizard) =>
       autoWizard'[1].Step = W.Step + 1]_vars

\* C6: Cancel deletes the session at whatever step it is and starts nothing;
\* from then on only /autoip makes a session, and until it does every button
\* is refused
C6_CancelDeletesSession ==
  [][/\ CbCancel =>
          autoWizard' = Nil /\ UNCHANGED <<autoApply, cfgs, task, fg>>
     /\ (autoWizard = Nil /\ autoWizard' # Nil) => StartAutoIPWizard
     /\ (autoWizard = Nil /\ WizardButton) =>
          autoWizard' = Nil /\ UNCHANGED task]_vars

\* Cancel has deleted a session that had reached the confirmation
C6_Witness ==
  /\ msg.kind = "cancelled"
  /\ autoWizard = Nil
  /\ autoApply # 0
  /\ ~cfgs[autoApply].Active

\* the session has been shown the existing IPs and asked to choose
PromptPending == autoWizard # Nil /\ W.Step = 6 /\ 6 \in W.sent

\* a step starts a goroutine
Starts == Cardinality(Running') > Cardinality(Running)

\* C7: once the confirmation has listed existing IPs and asked, no TaskHandle
\* is active, and no task is started before the operator presses the purge
\* or the keep button
C7_NoStartBeforeChoice ==
  [][/\ msg'.kind = "prompt" => ~TaskRunning' /\ ~Starts
     /\ (PromptPending /\ Starts) =>
          (CbKeepStart \/ PurgeListed \/ PurgeDeleted)]_vars

\* C8: a task is started only by a confirmation whose listing succeeded and
\* was empty, or by the purge or keep button pressed in answer to the prompt
\* of this confirmation
C8_StartNeedsReconciliation ==
  [][Starts =>
       \/ ConfirmListed /\ msg'.kind = "started"
       \/ PromptPending /\ (CbKeepStart \/ PurgeListed \/ PurgeDeleted)]_vars

\* deleteAllIPsAndStart is in its delete loop
Purging == fg.pc \in {"purge_delete", "purge_sleep"}

\* C9: the purge deletes the listed IPs one by one in list order, sleeps
\* between two deletes, goes on after a failed delete, and starts the task
\* only when the last delete has returned
C9_PurgeInOrder ==
  [][/\ (PurgeListed /\ Purging') =>
          fg'.pc = "purge_delete" /\ fg'.ips = pool[fg.client] /\ fg'.i = 1
     /\ PurgeDeleted =>
          IF fg.i < Len(fg.ips)
            THEN fg'.pc = "purge_sleep" /\ fg'.i = fg.i /\ fg'.ips = fg.ips
                 /\ ~Starts
            ELSE fg'.pc = "idle" /\ Starts
     /\ PurgeSlept =>
          fg'.pc = "purge_delete" /\ fg'.i = fg.i + 1 /\ fg'.ips = fg.ips
          /\ ~Starts
     /\ Purging' => task'[fg'.cfg].pc = "none"]_vars

\* the second delete of a purge is under way though the first one failed
C9_Witness ==
  /\ fg.pc = "purge_delete"
  /\ Len(fg.ips) = 2
  /\ fg.i = 2
  /\ InPool(fg.client, fg.ips[1])

\* C10: in a run whose calls all succeed, the first match comes at the
\* attempt k that the notification reports, the IPs of the k - 1 attempts
\* before it have been deleted, the goroutine does not delete the matching
\* IP, sends no second notification and returns
C10_FirstMatchEndsRun ==
  [][\A c \in Slots :
       /\ (CtlChecked(c) /\ msg'.kind = "match" /\ ~task[c].failed) =>
            /\ msg'.n = task[c].attempt
            /\ task[c].dels = task[c].attempt - 1
            /\ pool' = pool
       /\ (task[c].pc = "show" /\ Controller(c)) =>
            /\ Cardinality(Running') = Cardinality(Running) - 1
            /\ pool' = pool
            /\ msg'.kind # "match"]_vars

\* a run without a failed call has matched at its second attempt
C10_Witness ==
  /\ msg = [kind |-> "match", n |-> 2]
  /\ \E c \in Slots :
       /\ task[c].pc = "show"
       /\ task[c].attempt = 2
       /\ task[c].dels = 1
       /\ ~task[c].failed

\* the goroutine of slot c is inside a call (or about to return from one)
InCall(c) == task[c].pc \in {"create", "wait", "check", "delete"}

\* a step ends a goroutine
Ends == Cardinality(Running') < Cardinality(Running)

\* C11: the loop returns only after a match or once its ctx is cancelled;
\* while ctx is live, whatever a create, wait-ready, check or delete call
\* returns, the goroutine goes on to the next call of the attempt, to the
\* match, or into waitInterval, and from waitInterval to the next attempt
C11_LoopEndsOnlyByMatchOrCancel ==
  [][\A c \in Slots :
       /\ (Controller(c) /\ Ends) => task[c].pc = "show" \/ task[c].ctxDone
       /\ (Controller(c) /\ InCall(c) /\ ~task[c].ctxDone) =>
            \/ msg'.kind = "match"
            \/ /\ task'[c].pc \in {"wait", "check", "delete", "sleep"}
               /\ task'[c].attempt = task[c].attempt
               /\ task'[c].pc = "sleep" =>
                    /\ task'[c].interval >= cfgs[c].IntervalMin
                    /\ task'[c].interval <= cfgs[c].IntervalMax
       /\ (Controller(c) /\ task[c].pc = "sleep" /\ ~task[c].ctxDone) =>
            /\ task'[c].pc = "create"
            /\ task'[c].attempt = task[c].attempt + 1]_vars

\* a goroutine is at its second attempt after a call of the first one failed
C11_Witness ==
  \E c \in Slots :
    /\ task[c].pc = "create"
    /\ task[c].attempt = 2
    /\ task[c].failed
    /\ ~task[c].ctxDone


\* the goroutine named i is running with its ctx cancelled
Cancelled(i) ==
  \E c \in Slots : task[c].pc # "none" /\ task[c].id = i /\ task[c].ctxDone

\* no goroutine named i is running
Gone(i) == \A c \in Slots : task[c].pc = "none" \/ task[c].id # i

HandleUnchanged ==
  IF autoApply = 0 THEN autoApply' = 0
  ELSE autoApply' # 0 /\ cfgs'[autoApply'] = cfgs[autoApply]

\* C13: a goroutine whose ctx has been cancelled sends no match notification
\* and changes neither b.autoApply and its config nor b.purityCache, whatever
\* the call that was in flight returns
C13_ResultDiscardedAfterCancel ==
  [][\A c \in Slots :
       (Controller(c) /\ task[c].ctxDone) =>
         /\ msg'.kind # "match"
         /\ HandleUnchanged
         /\ purityCache' = purityCache]_vars


\* the number of "-" in a text
Dashes(t) == Cardinality({i \in 1..Len(t) : t[i] = "-"})

\* what an interval text stands for: N for "N", the lesser and the greater of
\* N and M for "N-M"; nothing if a part is no integer, there are two or more
\* "-", or the lesser is below 10
IntervalMeant(raw) ==
  LET t == TrimSpace(raw)
      k == CHOOSE i \in 1..Len(t) : t[i] = "-"
      one == Atoi(t)
      n == Atoi(TrimSpace(SubSeq(t, 1, k - 1)))
      m == Atoi(TrimSpace(SubSeq(t, k + 1, Len(t))))
      lo == IF n.val < m.val THEN n.val ELSE m.val
      hi == IF n.val < m.val THEN m.val ELSE n.val
      none == [ok |-> FALSE, min |-> 0, max |-> 0]
  IN CASE Dashes(t) = 0 ->
            IF one.err \/ one.val < 10 THEN none
            ELSE [ok |-> TRUE, min |-> one.val, max |-> one.val]
       [] Dashes(t) = 1 ->
            IF n.err \/ m.err \/ lo < 10 THEN none
            ELSE [ok |-> TRUE, min |-> lo, max |-> hi]
       [] OTHER -> none

\* C14: at the interval step a text that means an interval puts exactly that
\* interval into the pending config and moves the session to step 6; any
\* other text leaves the session at step 5 and b.autoApply as it was
C14_IntervalInput ==
  [][\A raw \in ProbeTexts :
       (autoWizard # Nil /\ W.Step = 5 /\ HandleText(raw)) =>
         IF IntervalMeant(raw).ok
           THEN /\ autoWizard'[1].Step = 6
                /\ autoApply' # 0
                /\ cfgs'[autoApply'].IntervalMin = IntervalMeant(raw).min
                /\ cfgs'[autoApply'].IntervalMax = IntervalMeant(raw).max
           ELSE /\ msg'.kind \in {"format", "number", "too_small"}
                /\ UNCHANGED <<autoWizard, autoApply, cfgs>>]_vars

\* "200-300" or "300-200" has been accepted
C14_Witness ==
  /\ autoWizard # Nil
  /\ W.Step = 6
  /\ autoApply # 0
  /\ cfgs[autoApply].IntervalMin = 200
  /\ cfgs[autoApply].IntervalMax = 300


\* v lies in the range of config cf, and is its one value if the range has one
InRange(v, cf) ==
  /\ cf.IntervalMin <= v
  /\ v <= cf.IntervalMax
  /\ cf.IntervalMin = cf.IntervalMax => v = cf.IntervalMin

\* C15: with IntervalMin <= IntervalMax, the interval the goroutine waits in
\* waitInterval and the interval the purge loop sleeps between two deletes lie
\* in [IntervalMin, IntervalMax], and are IntervalMin if the two are equal
C15_IntervalWithinRange ==
  /\ \A c \in Slots :
       (task[c].pc = "sleep" /\ cfgs[c].IntervalMin <= cfgs[c].IntervalMax) =>
         InRange(task[c].interval, cfgs[c])
  /\ (fg.pc = "purge_sleep" /\ cfgs[fg.cfg].IntervalMin <= cfgs[fg.cfg].IntervalMax) =>
       InRange(fg.interval, cfgs[fg.cfg])

\* the goroutine waits 12 seconds with the range 10-12
C15_Witness ==
  \E c \in Slots :
    /\ task[c].pc = "sleep"
    /\ cfgs[c].IntervalMin = 10
    /\ cfgs[c].IntervalMax = 12
    /\ task[c].interval = 12


\* ippure.Check has returned info without an error to the goroutine of slot c,
\* which declares a match
Matched(c, info) == IPChecked(c, {info}) /\ msg'.kind = "match"

\* ... which declares a mismatch and goes on to delete the IP
Mismatched(c, info) ==
  IPChecked(c, {info}) /\ msg'.kind = "none" /\ task'[c].pc = "delete"

\* C16: a classification that matches with threshold T1 matches with every
\* threshold T2 >= T1, the origin requirement and the mode being the same
C16_MatchMonotoneInThreshold ==
  [][\A c \in Slots : \A info \in ProbeInfos :
       Matched(c, info) =>
         \A t2 \in AllPurityValues :
           t2 >= cfgs[c].PurityThreshold =>
             CheckIPMatch(info, [cfgs[c] EXCEPT !.PurityThreshold = t2])]_vars

\* a match with score 25% and the threshold 30, below the greatest threshold
C16_Witness ==
  \E c \in Slots :
    /\ task[c].pc = "show"
    /\ msg.kind = "match"
    /\ cfgs[c].PurityThreshold = 30
    /\ cfgs[c].NativeRequired = "native"
    /\ cfgs[c].MatchMode = "all"
    /\ purityCache[task[c].ip] =
         <<[PurityScore |-> <<"2", "5", "%">>, IsNative |-> "native"]>>

\* the number a score text stands for: strconv.Atoi of the text without its
\* "%", and 100 for a text that is no number
ScoreOf(info) ==
  IF Atoi(TrimSuffixPct(info.PurityScore)).err THEN 100
  ELSE Atoi(TrimSuffixPct(info.PurityScore)).val

PurityOK(info, cf) == ScoreOf(info) <= cf.PurityThreshold

OriginOK(info, cf) == cf.NativeRequired = "any" \/ info.IsNative = cf.NativeRequired

\* C17: the goroutine declares a match exactly if purityOK and originOK both
\* hold (mode all), or at least one of them holds (mode any)
C17_ModeAllIsAndModeAnyIsOr ==
  [][\A c \in Slots : \A info \in ProbeInfos :
       (Matched(c, info) \/ Mismatched(c, info)) =>
         (Matched(c, info) <=>
            IF cfgs[c].MatchMode = "all"
              THEN PurityOK(info, cfgs[c]) /\ OriginOK(info, cfgs[c])
              ELSE PurityOK(info, cfgs[c]) \/ OriginOK(info, cfgs[c]))]_vars

\* mode any: a match on the origin alone, the score 51% being above the
\* threshold 50
C17_Witness ==
  \E c \in Slots :
    /\ task[c].pc = "show"
    /\ msg.kind = "match"
    /\ cfgs[c].MatchMode = "any"
    /\ cfgs[c].PurityThreshold = 50
    /\ cfgs[c].NativeRequired = "non_native"
    /\ purityCache[task[c].ip] =
         <<[PurityScore |-> <<"5", "1", "%">>, IsNative |-> "non_native"]>>

\* the score text is no number
NonNumeric(info) == Atoi(TrimSuffixPct(info.PurityScore)).err

\* C18: a classification whose score is no number is never declared a match,
\* whatever the policy
C18_NonNumericNeverMatches ==
  [][\A c \in Slots : \A info \in ProbeInfos :
       NonNumeric(info) => ~Matched(c, info)]_vars

C20_TextOutsideStepFive ==
  [][(TextMessage /\ ~(autoWizard # Nil /\ W.Step = 5)) =>
       /\ msg'.kind = "use_help"
       /\ UNCHANGED <<autoWizard, autoApply, cfgs, task, currentClient>>]_vars

\* a text has been answered with the hint at step 6, the config still pending
C20_Witness ==
  /\ msg.kind = "use_help"
  /\ autoWizard # Nil
  /\ W.Step = 6
  /\ autoApply # 0
  /\ ~cfgs[autoApply].Active


\* C21: the current account is always one of the loaded accounts; it changes
\* only in a switch that names a loaded account, to that account; a switch
\* naming an unknown account, the wizard's steps and the goroutines' steps
\* leave it as it was
C21_CurrentAccountOnlyBySwitch ==
  /\ [](currentClient \in Accounts)
  /\ [][currentClient' # currentClient =>
          \E name \in Accounts : SwitchAccount(name) /\ currentClient' = name]_vars
  /\ [][(\E name \in UseNames \ Accounts : SwitchAccount(name)) =>
          currentClient' = currentClient]_vars
  /\ [][(CbAccount \/ CbPurity \/ CbNative \/ CbMode \/ TextMessage
           \/ \E c \in Slots : Controller(c)) =>
          currentClient' = currentClient]_vars

\* the wizard has selected a1 while the current account is a2
C21_Witness ==
  /\ currentClient = "a2"
  /\ autoWizard # Nil
  /\ W.Step = 2
  /\ W.AccountName = "a1"


\* the goroutine that a step starts runs with client cl for a config that
\* has the fields of wizard w
StartsWith(w, cl) ==
  \E d \in Slots :
    /\ task'[d].pc = "top"
    /\ task'[d].id = NewId
    /\ task'[d].client = cl
    /\ cfgs'[d].AccountName = w.AccountName
    /\ cfgs'[d].PurityThreshold = w.PurityThreshold
    /\ cfgs'[d].NativeRequired = w.NativeRequired
    /\ cfgs'[d].MatchMode = w.MatchMode

\* C22: a goroutine is started only with a session at step 6, and it runs
\* with the client of the account and with the threshold, origin requirement
\* and mode that this session holds (the interval is not kept in the session)
C22_StartsWithSessionsPolicy ==
  [][Starts =>
       /\ autoWizard # Nil
       /\ W.Step = 6
       /\ StartsWith(W, W.AccountName)]_vars


\* the goroutine named i is in waitInterval with its ctx cancelled
CancelledInWait(i) ==
  \E c \in Slots : task[c].pc = "sleep" /\ task[c].id = i /\ task[c].ctxDone

\* C23: a goroutine that is in waitInterval, or at the top of its loop, with
\* its ctx cancelled returns in its next step, whatever is left of the
\* interval: it calls CreateReservedIP no more, changes no IP and sends
\* nothing; and a goroutine cancelled in waitInterval does take that step
C23_CancelEndsWaitAndLoop ==
  /\ [][\A c \in Slots :
          (task[c].pc \in {"top", "sleep"} /\ task[c].ctxDone /\ Controller(c)) =>
            /\ Ends
            /\ \A d \in Slots : task'[d].pc # "none" => task'[d].id # task[c].id
            /\ UNCHANGED <<pool, nextRes, purityCache>>
            /\ msg'.kind = "none"]_vars
  /\ \A i \in Slots : CancelledInWait(i) ~> Gone(i)

\* /stopauto has reached a goroutine in the first of its waits, and a new
\* session has been opened since
C23_Witness ==
  /\ autoWizard # Nil
  /\ \E c \in Slots :
       /\ task[c].pc = "sleep"
       /\ task[c].ctxDone
       /\ task[c].attempt = 1
       /\ task[c].interval = 10


\* the goroutine of slot c, not cancelled, takes the step after its call at pc
StepFrom(c, pc) == task[c].pc = pc /\ ~task[c].ctxDone /\ Controller(c)

\* the step enters waitInterval after a failed call: nothing deleted, no IP
\* touched, nothing cached or sent, the attempt still the same
WaitsAfterFailure(c) ==
  /\ task'[c].pc = "sleep"
  /\ task'[c].failed
  /\ task'[c].dels = task[c].dels
  /\ task'[c].attempt = task[c].attempt
  /\ InRange(task'[c].interval, cfgs[c])
  /\ UNCHANGED <<pool, purityCache>>
  /\ msg'.kind = "none"

\* IP ip is in the account once the step is done
InPoolAfter(acct, ip) == \E i \in 1..Len(pool'[acct]) : pool'[acct][i] = ip

\* the step leaves waitInterval and calls CreateReservedIP for the next attempt
NextAttempt(c) ==
  /\ task'[c].pc = "create"
  /\ task'[c].attempt = task[c].attempt + 1
  /\ UNCHANGED pool

\* C24: when ippure.Check fails, the goroutine calls no DeleteReservedIP (the
\* IP stays in the account), waits once and begins the next attempt; it goes
\* on to DeleteReservedIP only with a classification that Check has returned
C24_CheckErrorKeepsIP ==
  [][\A c \in Slots :
       /\ StepFrom(c, "check") =>
            \/ msg'.kind = "match"
            \/ task'[c].pc = "delete" /\ task'[c].failed = task[c].failed
            \/ WaitsAfterFailure(c)
       /\ (StepFrom(c, "sleep") /\ task[c].failed) => NextAttempt(c)]_vars

\* the second attempt is under way, the first IP still in the account after
\* a failed call and no delete
C24_Witness ==
  \E c \in Slots :
    /\ task[c].pc = "wait"
    /\ task[c].attempt = 2
    /\ task[c].failed
    /\ task[c].dels = 0
    /\ Len(pool[task[c].client]) = 2

\* C25: when CreateReservedIP or WaitForIPReady fails, the goroutine calls
\* neither ippure.Check nor DeleteReservedIP in that attempt, waits once and
\* begins the next attempt; it goes on to the next call only when the call
\* has succeeded
C25_ProvisionErrorWaitsAndRetries ==
  [][\A c \in Slots :
       /\ StepFrom(c, "create") =>
            \/ /\ task'[c].pc = "wait"
               /\ task'[c].failed = task[c].failed
               /\ InPoolAfter(task[c].client, task'[c].ip)
            \/ WaitsAfterFailure(c) /\ nextRes' = nextRes
       /\ StepFrom(c, "wait") =>
            \/ task'[c].pc = "check" /\ task'[c].failed = task[c].failed
            \/ WaitsAfterFailure(c)
       /\ (StepFrom(c, "sleep") /\ task[c].failed) =>
            task'[c].pc = "create" /\ task'[c].dels = task[c].dels]_vars

\* the first CreateReservedIP has failed: the second attempt is under way
\* with no IP created and none deleted
C25_Witness ==
  \E c \in Slots :
    /\ task[c].pc = "create"
    /\ task[c].attempt = 2
    /\ task[c].failed
    /\ task[c].dels = 0
    /\ pool[task[c].client] = <<>>
    /\ nextRes = 1


\* C26: on a mismatch the goroutine calls DeleteReservedIP once, for the IP of
\* the attempt, before it waits; whether the delete succeeds or fails, it
\* then waits once and begins the next attempt
C26_MismatchDeletesOnce ==
  [][\A c \in Slots :
       /\ StepFrom(c, "check") =>
            \/ msg'.kind = "match"
            \/ task'[c].pc = "sleep" /\ task'[c].failed
            \/ /\ task'[c].pc = "delete"
               /\ task'[c].ip = task[c].ip
               /\ task'[c].attempt = task[c].attempt
               /\ \E info \in Infos : ~CheckIPMatch(info, cfgs[c])
               /\ UNCHANGED pool
       /\ StepFrom(c, "delete") =>
            /\ task'[c].pc = "sleep"
            /\ task'[c].attempt = task[c].attempt
            /\ InRange(task'[c].interval, cfgs[c])
            /\ \/ /\ pool' = [pool EXCEPT ![task[c].client] = Remove(@, task[c].ip)]
                  /\ task'[c].dels = task[c].dels + 1
               \/ /\ pool' = pool
                  /\ task'[c].dels = task[c].dels
                  /\ task'[c].failed
       /\ StepFrom(c, "sleep") => NextAttempt(c)]_vars

\* the IP of the first attempt did not match and has been deleted; the
\* goroutine waits, no call of the run having failed
C26_Witness ==
  \E c \in Slots :
    /\ task[c].pc = "sleep"
    /\ task[c].attempt = 1
    /\ task[c].dels = 1
    /\ ~task[c].failed
    /\ pool[task[c].client] = <<>>
    /\ nextRes = 2


\* the goroutine named i is at pc once the step is done
AfterAt(i, pc) == \E d \in Slots : task'[d].id = i /\ task'[d].pc = pc

\* C27: on a match the goroutine caches the classification under the IP,
\* sets b.autoApply to nil, so that /autoip is accepted again, sends the
\* match notification with the attempt count, and goes on to show the IP
\* list and return: the IP is not deleted and no IP is created any more
C27_MatchEndsTheTask ==
  [][/\ \A c \in Slots :
          /\ (StepFrom(c, "check") /\ msg'.kind = "match") =>
               /\ \E info \in Infos :
                    /\ CheckIPMatch(info, cfgs[c])
                    /\ purityCache'[task[c].ip] = <<CacheEntry(info)>>
               /\ autoApply' = 0
               /\ ~TaskRunning'
               /\ msg'.n = task[c].attempt
               /\ AfterAt(task[c].id, "show")
               /\ UNCHANGED <<pool, nextRes>>
          /\ (task[c].pc = "show" /\ Controller(c)) =>
               /\ Ends
               /\ \A d \in Slots : task'[d].pc # "none" => task'[d].id # task[c].id
               /\ UNCHANGED <<pool, nextRes>>
     /\ (autoApply = 0 /\ StartAutoIPWizard) =>
          autoWizard' # Nil /\ msg'.kind = "step1"]_vars

\* /autoip has been accepted after a match, the goroutine being still about
\* to show the list; the matching IP is in the account and in the cache
C27_Witness ==
  /\ msg.kind = "step1"
  /\ autoWizard # Nil
  /\ \E c \in Slots :
       /\ task[c].pc = "show"
       /\ ~task[c].ctxDone
       /\ purityCache[task[c].ip] # Nil
       /\ InPool(task[c].client, task[c].ip)

\* flow f is inside a call to the provider or to the classifier, or asleep
Blocked(f) == Busy(f) /\ Cur(f).op \in {"call", "sleep"}

\* C28: in every reachable state no flow, the update loop's handler or the
\* Controller, holds the session lock while a provisioning, listing,
\* deletion, wait-ready or classification call of its own is in progress or
\* while it sleeps.
C28_NoLockAcrossCalls == \A f \in Flows : Blocked(f) => mu # f

\* the confirm handler is listing the account's IPs while the Controller
\* holds the lock to retire the handle after a match
C28_Witness ==
  /\ Busy("Run")
  /\ Cur("Run") = Call("ListReservedIPs", 1037)
  /\ mu = "go1"
  /\ Busy("go1")
  /\ Cur("go1") = Write("autoApply", 1233)

\* flow f is reading or writing the current account, the wizard or the handle
Touches(f) == Busy(f) /\ Cur(f).op \in {"read", "write"} /\ Cur(f).what \in Guarded

\* C29: every read and every write of the current account, of the active
\* wizard and of the active handle, reference or field, by a handler or by
\* the Controller, is made while that flow holds the session lock.
C29_SharedStateUnderLock == \A f \in Flows : Touches(f) => mu = f

\* the policy the goroutine of slot c matches and waits with, in cf and tk
PolicyOf(cf, tk, c) ==
  <<tk[c].client, cf[c].AccountName, cf[c].PurityThreshold,
    cf[c].NativeRequired, cf[c].MatchMode, cf[c].IntervalMin, cf[c].IntervalMax>>

\* C30: the policy of a started task is immutable: from the start of a
\* Controller to its return, the account it provisions in and the account
\* name, threshold, origin requirement, match mode and interval bounds of
\* its handle stay as they were, whatever step the operator or any
\* goroutine takes.
C30_StartedPolicyImmutable ==
  [][\A c \in Slots : \A d \in Slots :
       (task[c].pc # "none" /\ task'[d].pc # "none" /\ task'[d].id = task[c].id)
         => PolicyOf(cfgs', task', d) = PolicyOf(cfgs, task, c)]_vars

\* a goroutine started with one policy has been stopped and has not yet
\* returned when the confirmation of a later session has built a handle
\* with another policy
C30_Witness ==
  /\ msg.kind = "confirm"
  /\ autoApply # 0
  /\ \E c \in Slots :
       /\ c # autoApply
       /\ task[c].pc # "none"
       /\ task[c].attempt > 0
       /\ \E k \in 2..7 :
            PolicyOf(cfgs, task, c)[k]
              # PolicyOf(cfgs, [task EXCEPT ![autoApply].client = ""], autoApply)[k]

\* address a has been handed out and is in no account now
Deleted(a) == a < nextRes /\ \A acct \in Accounts : ~InPool(acct, a)

\* C31: the classification cache is never invalidated: as long as the process
\* lives, an address that has an entry has one after every step, the same or
\* a newer one, whether the reserved IP of that address is deleted by /delip,
\* by the purge or by the goroutine, or stays.
C31_CacheNeverInvalidated ==
  [][\A a \in Addresses :
       (purityCache[a] # Nil /\ ~crashed') => purityCache'[a] # Nil]_vars

\* /delip has just deleted the reserved IP of an address that is in the cache,
\* and the entry is still there
C31_Witness ==
  /\ msg.kind = "deleted"
  /\ \E a \in Addresses : Deleted(a) /\ purityCache[a] # Nil

\* where the goroutine is when it makes the call that leaves it at pc
CalledFrom(pc) ==
  CASE pc = "create" -> {"top", "sleep"}
    [] pc = "wait" -> {"create"}
    [] pc = "check" -> {"wait"}
    [] pc = "delete" -> {"check"}
    [] OTHER -> {}

\* C32: within one goroutine the calls are strictly sequential.  It is inside
\* at most one of CreateReservedIP, WaitForIPReady, ippure.Check and
\* DeleteReservedIP; it makes each of them only when the one before it in the
\* attempt has returned, and the CreateReservedIP of the next attempt only
\* from the top of the loop, with no call of the attempt before in progress.
C32_CallsSequential ==
  /\ [][\A c \in Slots : \A d \in Slots :
          (/\ task[c].pc # "none"
           /\ task'[d].pc # "none"
           /\ task'[d].id = task[c].id
           /\ task'[d].pc # task[c].pc \/ task'[d].attempt # task[c].attempt)
            => /\ InCall(d)' => task[c].pc \in CalledFrom(task'[d].pc)
               /\ task'[d].attempt =
                    IF task'[d].pc = "create" THEN task[c].attempt + 1
                                              ELSE task[c].attempt]_vars
  /\ [](\A c \in Slots : \A d \in Slots :
          (InCall(c) /\ InCall(d) /\ task[c].id = task[d].id) => c = d)

\* the goroutine is in the CreateReservedIP of its second attempt, the first
\* one having ended with the mismatching IP deleted
C32_Witness ==
  \E c \in Slots :
    /\ task[c].pc = "create"
    /\ task[c].attempt = 2
    /\ task[c].dels = 1
    /\ ~task[c].ctxDone

\* C33: a confirm, purge-all or keep-and-start button pressed while a wizard
\* session exists and b.autoApply is nil is answered with the notice that the
\* configuration has expired and changes nothing: the handler does not use
\* the missing config.
C33_StartEventWithoutRequest ==
  [][(/\ autoWizard # Nil
      /\ autoApply = 0
      /\ Ready
      /\ CbConfirm \/ CbDelAll \/ CbKeepStart)
        => /\ msg'.kind = "expired"
           /\ ~crashed'
           /\ UNCHANGED <<currentClient, autoWizard, autoApply, cfgs, task,
                          purityCache, pool, nextRes, fg>>]_vars

\* C34: every goroutine that is started works on a loaded account, with a
\* client that is not nil: a config whose AccountName is empty or no key of
\* b.clients starts no goroutine, by confirm, by purge-all or by
\* keep-and-start.
C34_StartedOnLoadedAccount ==
  \A c \in Slots :
    task[c].pc # "none" =>
      task[c].client \in Accounts /\ cfgs[c].AccountName \in Accounts

\* the goroutine of slot c runs, its ctx is live and it has found no match yet
Searching(c) == task[c].pc \notin {"none", "show"} /\ ~task[c].ctxDone

\* C35: the goroutine that finds a match clears b.autoApply only when it
\* points to its own config: a config made or a task started after this
\* goroutine was stopped is left in place, so that every goroutine that is
\* searching with a live ctx is the one b.autoApply points to, with Active
\* set, and /stopauto reaches it.
C35_MatchClearsOwnHandleOnly ==
  /\ [][\A c \in Slots :
          (/\ task[c].pc = "check"
           /\ autoApply \notin {0, c}
           /\ msg'.kind = "match"
           /\ Controller(c))
            => autoApply' # 0]_vars
  /\ [](\A c \in Slots : Searching(c) => autoApply = c /\ cfgs[c].Active)

\* C36: /use while a goroutine runs does not change the account it works on:
\* the switch leaves every goroutine and every config as they are, and each
\* step of a goroutine, whatever the current account is, creates and deletes
\* reserved IPs only in the account chosen in the wizard.
C36_SwitchLeavesTaskAccount ==
  [][\A c \in Slots :
       task[c].pc # "none" =>
         /\ UseCommand => task' = task /\ cfgs' = cfgs /\ pool' = pool
         /\ Controller(c) =>
              \A acct \in Accounts \ {cfgs[c].AccountName} :
                pool'[acct] = pool[acct]]_vars

\* the operator has switched to a2; the goroutine started for a1 has its new
\* reserved IP in a1, and a2 has none
C36_Witness ==
  /\ currentClient = "a2"
  /\ pool["a2"] = <<>>
  /\ \E c \in Slots :
       /\ task[c].pc \in {"wait", "check"}
       /\ ~task[c].ctxDone
       /\ cfgs[c].AccountName = "a1"
       /\ InPool("a1", task[c].ip)

\* C37: /stopauto when no task is active, b.autoApply being nil or a pending
\* config with Active unset, is answered with the notice that no task runs
\* and changes nothing: the pending config, the wizard session and the
\* current account stay as they are and no ctx is cancelled.
C37_StopWithoutTask ==
  [][(~TaskRunning /\ StopAutoApply)
       => /\ msg'.kind = "no_task"
          /\ UNCHANGED <<currentClient, autoWizard, autoApply, cfgs, task,
                         purityCache, pool, nextRes, fg, crashed>>]_vars

\* /stopauto has been refused while the confirmation's config is pending and
\* its session is open
C37_Witness ==
  /\ msg.kind = "no_task"
  /\ autoWizard # Nil
  /\ autoApply # 0
  /\ ~cfgs[autoApply].Active

\* C38: a message or a button event whose sender is not the admin changes no
\* session state: the current account, the wizard, the handle and its
\* configs, the goroutines and the cache are as before, no handler is left
\* inside a provider call, and no reserved IP is created or deleted.
C38_OnlyAdminActs ==
  [][\A from \in Senders \ {AdminID} :
       (Ready /\ (HandleMessage(from) \/ HandleCallback(from)))
         => UNCHANGED <<currentClient, autoWizard, autoApply, cfgs, task,
                        purityCache, pool, nextRes, fg, crashed>>]_vars

\* another sender's message has been turned away while a wizard session is at
\* its confirmation, its config pending
C38_Witness ==
  /\ msg.kind = "unauthorized"
  /\ autoWizard # Nil
  /\ W.Step = 6
  /\ autoApply # 0


====
